---- MODULE Spec2Model ----
(***************************************************************************)
(* Model of the Toolkit PlayStore descriptor:                              *)
(*   src/python/playstore_io_descriptor/playstore.py                       *)
(*       IODescriptorPlayStoreBase   (resolution, side-car metadata cache) *)
(*   src/examples/tank_playstore.py                                        *)
(*       IODescriptorTankPlayStore   (catalog connection, connection cache)*)
(*                                                                         *)
(* Every method is an operator that maps the state it reads and the        *)
(* outcomes of the external collaborators (site, catalog, filesystem) to   *)
(* the state it leaves, the value it returns or the error it raises, and   *)
(* the list of remote calls it made.  One action per public operation      *)
(* applies the operator and records what the caller observed in `result`   *)
(* and `calls`.                                                            *)
(***************************************************************************)
EXTENDS Integers, Sequences, FiniteSets, TLC

VARIABLES
    connections,   \* IODescriptorPlayStoreBase._play_store_connections: site url -> (client, identity)
    disabled,      \* os.environ[DISABLE_PLAYSTORE_ACCESS_ENV_VAR] == "1"
    materialized,  \* the bundle cache directories that exist on disk
    sidecar,       \* content of <path>/.cached_metadata.pickle for every path
    catalog,       \* the records of the remote catalog
    writing,       \* the side-cars another process has opened for writing and not closed
    result,        \* what the caller of the last operation observed
    calls,         \* the remote calls the last operation made, in order
    threads        \* where each concurrent request for a connection stands

vars ==
    <<connections, disabled, materialized, sidecar, catalog, writing, result, calls, threads>>

(***************************************************************************)
(* Values                                                                  *)
(***************************************************************************)

\* Python's None, and a dict without the keys some code looks for
None == [k |-> "none"]
EmptyDict == [k |-> "dict"]

IsNone(x) == x = None

\* bool(x) of Python for the values of the model: None and {} are falsy
Truthy(x) == x.k \notin {"none", "dict"}

(***************************************************************************)
(* Bounds of the model                                                     *)
(***************************************************************************)

\* how many of the version numbers of VersionPool the artifact has
MaxVersions == 2

\* how many tags a tag list handed to the label matcher has at most
MaxTags == 2

(***************************************************************************)
(* Descriptors                                                             *)
(***************************************************************************)

\* the client sites a descriptor can originate from (_sg_connection.base_url)
Sites == {"siteA", "siteB"}

\* a version string "v1.10.0" is the sequence of its dot separated segments
VersionPool == << <<1, 9, 0>>, <<1, 10, 0>>, <<1, 2, 5>>, <<2, 0, 0>> >>
Versions == {VersionPool[i] : i \in 1..MaxVersions}

\* a Python string that may be None: None or Str(the sequence of its characters)
Str(s) == [k |-> "str", s |-> s]

\* the label of a descriptor ("2018.2") and the tags of the catalog ("2018.*"),
\* written as their characters
Label82 == <<"8", ".", "2">>
Labels == {None, Str(Label82)}
Tag8x == <<"8", ".", "*">>
Tag9x == <<"9", ".", "*">>

\* constants.DESCRIPTOR_APP stands for every kind with a bundle level entity
\* (app, engine, framework, config); the core has none
Kinds == {"app", "core"}

\* the two classes of src/: the abstract base and the concrete deployment
Classes == {"Base", "Tank"}

\* self: the fields __init__ sets (playstore.py:193-197) and the class
Descriptors ==
    [cls : Classes, site : Sites, kind : Kinds, version : Versions, label : Labels]

\* PLAY_STORE_DISK_NAME of the class (playstore.py:103, tank_playstore.py:64)
PLAY_STORE_DISK_NAME(cls) == IF cls = "Tank" THEN "app_store" ELSE "play_store"

\* DISABLE_PLAYSTORE_ACCESS_ENV_VAR of the class (playstore.py:99, tank_playstore.py:60)
DISABLE_PLAYSTORE_ACCESS_ENV_VAR(cls) ==
    IF cls = "Tank" THEN "SHOTGUN_DISABLE_APPSTORE_ACCESS" ELSE "SHOTGUN_DISABLE_PLAYSTORE_ACCESS"

(***************************************************************************)
(* Errors.  An error is [type, msg]; the types are the Python classes.     *)
(***************************************************************************)

Err(type, msg) == [k |-> "error", type |-> type, msg |-> msg, considered |-> <<>>]

\* the classes that derive from Exception: what "except Exception" catches.
\* All the errors of the model do; KeyboardInterrupt and SystemExit would not.
ExceptionTypes ==
    {"NotImplementedError", "TankAppStoreConnectionError", "InvalidAppStoreCredentialsError",
     "TankAppStoreError", "TankDescriptorError", "HTTPError", "URLError", "Fault",
     "AttributeError", "TypeError", "KeyError", "UnpicklingError", "IOError",
     "ShotgunAttachmentDownloadError"}

\* the classes that derive from TankAppStoreError (tank.descriptor)
AppStoreErrorTypes ==
    {"TankAppStoreError", "TankAppStoreConnectionError", "InvalidAppStoreCredentialsError"}

(***************************************************************************)
(* The catalog connection (tank_playstore.py)                              *)
(***************************************************************************)

\* outcomes of _get_play_store_key_from_shotgun (tank_playstore.py:177-213):
\* the credentials, an HTTP error of urlopen (403 or another code), a
\* transport error of urlopen, or empty credentials in the answer
FetchOutcomes == {"ok", "http403", "http500", "url_error", "empty"}

\* outcomes of self._sg_connection.find_one("HumanUser", []) on the site
RefreshOutcomes == {"ok", "fault"}

\* outcomes of play_store_sg.find_one("ApiUser", ...) on the catalog
LookupOutcomes ==
    {"user", "none", "auth_fault", "transport", "ssl_timeout", "ssl_other", "other"}

\* what the environment answers during one connection attempt; py3 is the
\* interpreter the program runs under (the code supports both through six)
\* An answer nothing asks for is fixed (the session refresh and the second
\* fetch when the first fetch did not fail with 403, the lookup when there
\* are no credentials, the interpreter when no SSLError is handled).
CredentialsOk(o) ==
    o.fetch1 = "ok" \/ (o.fetch1 = "http403" /\ o.refresh = "ok" /\ o.fetch2 = "ok")

ConnOutcomes ==
    {o \in [fetch1 : FetchOutcomes, refresh : RefreshOutcomes, fetch2 : FetchOutcomes,
            lookup : LookupOutcomes, py3 : BOOLEAN] :
        /\ (o.fetch1 # "http403" => o.refresh = "ok" /\ o.fetch2 = "ok")
        /\ (o.refresh # "ok" => o.fetch2 = "ok")
        /\ (~CredentialsOk(o) => o.lookup = "user")
        /\ (o.lookup \notin {"ssl_timeout", "ssl_other"} => ~o.py3)}

\* the answers of a catalog that is reachable at the first attempt
ConnUp == [fetch1 |-> "ok", refresh |-> "ok", fetch2 |-> "ok", lookup |-> "user",
           py3 |-> FALSE]

\* a few answers, for the operations that connect on their way
ConnBrief ==
    {ConnUp, [ConnUp EXCEPT !.fetch1 = "url_error"], [ConnUp EXCEPT !.lookup = "transport"]}

\* the error _get_play_store_key_from_shotgun raises for an outcome
FetchError(f) ==
    CASE f = "http403" -> Err("HTTPError", "403")
      [] f = "http500" -> Err("HTTPError", "500")
      [] f = "url_error" -> Err("URLError", "unreachable")
      [] OTHER -> Err("InvalidAppStoreCredentialsError", "could not be retrieved")

\* FetchCredentials with a retry after every failed fetch, not only after a 403
FetchCredentialsRetryAlways(o) ==
    IF o.fetch1 = "ok" THEN
        [ok |-> TRUE, err |-> None, calls |-> <<"fetch_credentials">>]
    ELSE IF o.refresh # "ok" THEN
        [ok |-> FALSE, err |-> Err("Fault", "site"),
         calls |-> <<"fetch_credentials", "session_refresh">>]
    ELSE IF o.fetch2 = "ok" THEN
        [ok |-> TRUE, err |-> None,
         calls |-> <<"fetch_credentials", "session_refresh", "fetch_credentials">>]
    ELSE
        [ok |-> FALSE, err |-> FetchError(o.fetch2),
         calls |-> <<"fetch_credentials", "session_refresh", "fetch_credentials">>]

\* tank_playstore.py:97-113: the credentials, with the retry after a 403.
\* Returns [ok, err, calls].
FetchCredentials(o) ==
    IF o.fetch1 = "ok" THEN
        [ok |-> TRUE, err |-> None, calls |-> <<"fetch_credentials">>]
    ELSE IF o.fetch1 = "http403" THEN
        \* except urllib.error.HTTPError, e.code == 403
        IF o.refresh # "ok" THEN
            [ok |-> FALSE, err |-> Err("Fault", "site"),
             calls |-> <<"fetch_credentials", "session_refresh">>]
        ELSE IF o.fetch2 = "ok" THEN
            [ok |-> TRUE, err |-> None,
             calls |-> <<"fetch_credentials", "session_refresh", "fetch_credentials">>]
        ELSE
            [ok |-> FALSE, err |-> FetchError(o.fetch2),
             calls |-> <<"fetch_credentials", "session_refresh", "fetch_credentials">>]
    ELSE
        \* another HTTPError is re-raised; what is no HTTPError is not caught
        [ok |-> FALSE, err |-> FetchError(o.fetch1), calls |-> <<"fetch_credentials">>]

\* IdentityLookup without the clause for AuthenticationFault: the fault is
\* caught by the clause for what is left
IdentityLookupAuthUnclassified(o) ==
    CASE o.lookup = "user" -> [ok |-> TRUE, err |-> None]
      [] o.lookup = "transport" ->
            [ok |-> FALSE, err |-> Err("TankAppStoreConnectionError", "transport")]
      [] OTHER -> [ok |-> FALSE, err |-> Err("TankAppStoreError", "other")]

\* tank_playstore.py:131-170: the acting identity, or the error raised
IdentityLookup(o) ==
    CASE o.lookup = "user" -> [ok |-> TRUE, err |-> None]
      [] o.lookup = "none" ->
            [ok |-> FALSE, err |-> Err("TankAppStoreError", "could not evaluate user")]
      [] o.lookup = "auth_fault" ->
            [ok |-> FALSE, err |-> Err("InvalidAppStoreCredentialsError", "invalid")]
      [] o.lookup = "transport" ->
            [ok |-> FALSE, err |-> Err("TankAppStoreConnectionError", "transport")]
      [] o.lookup \in {"ssl_timeout", "ssl_other"} ->
            \* except httplib2.ssl.SSLError as e: if "timed" in e.message.
            \* An exception of Python 3 has no attribute message.
            IF o.py3 THEN [ok |-> FALSE, err |-> Err("AttributeError", "message")]
            ELSE IF o.lookup = "ssl_timeout"
                 THEN [ok |-> FALSE, err |-> Err("TankAppStoreConnectionError", "timed out")]
                 ELSE [ok |-> FALSE, err |-> Err("TankAppStoreError", "ssl")]
      [] OTHER -> [ok |-> FALSE, err |-> Err("TankAppStoreError", "other")]

\* a connection: the catalog client created by the attempt and its identity
Connection(id) == [k |-> "conn", client |-> id, identity |-> "ApiUser"]

\* the number of client objects created so far: each attempt that reaches
\* shotgun_api3.Shotgun(...) creates a new one
NextClient(conns) == Cardinality({s \in Sites : ~IsNone(conns[s])}) + 1

\* create_sg_play_store_connection without the test of tank_playstore.py:93:
\* every request establishes a connection and stores it
create_connection_uncached(self, conns, dis, o) ==
    IF self.cls = "Base" THEN
        [ok |-> FALSE, err |-> Err("NotImplementedError", ""), conn |-> None,
         conns |-> conns, calls |-> <<>>]
    ELSE IF dis THEN
        [ok |-> FALSE, err |-> Err("TankAppStoreConnectionError", "disabled"),
         conn |-> None, conns |-> conns, calls |-> <<>>]
    ELSE IF FetchCredentials(o).ok /\ IdentityLookup(o).ok THEN
        [ok |-> TRUE, err |-> None, conn |-> Connection(NextClient(conns)),
         conns |-> [conns EXCEPT ![self.site] = Connection(NextClient(conns))],
         calls |-> Append(FetchCredentials(o).calls, "identity_lookup")]
    ELSE
        [ok |-> FALSE,
         err |-> IF FetchCredentials(o).ok THEN IdentityLookup(o).err
                 ELSE FetchCredentials(o).err,
         conn |-> None, conns |-> conns,
         calls |-> IF FetchCredentials(o).ok
                   THEN Append(FetchCredentials(o).calls, "identity_lookup")
                   ELSE FetchCredentials(o).calls]

\* create_sg_play_store_connection storing the client before the identity
\* lookup: an attempt whose lookup fails leaves an entry
create_connection_stored_early(self, conns, dis, o) ==
    IF self.cls = "Base" THEN
        [ok |-> FALSE, err |-> Err("NotImplementedError", ""), conn |-> None,
         conns |-> conns, calls |-> <<>>]
    ELSE IF dis THEN
        [ok |-> FALSE, err |-> Err("TankAppStoreConnectionError", "disabled"),
         conn |-> None, conns |-> conns, calls |-> <<>>]
    ELSE IF ~IsNone(conns[self.site]) THEN
        [ok |-> TRUE, err |-> None, conn |-> conns[self.site], conns |-> conns,
         calls |-> <<>>]
    ELSE IF ~FetchCredentials(o).ok THEN
        [ok |-> FALSE, err |-> FetchCredentials(o).err, conn |-> None, conns |-> conns,
         calls |-> FetchCredentials(o).calls]
    ELSE
        [ok |-> IdentityLookup(o).ok, err |-> IdentityLookup(o).err,
         conn |-> IF IdentityLookup(o).ok THEN Connection(NextClient(conns)) ELSE None,
         conns |-> [conns EXCEPT ![self.site] = Connection(NextClient(conns))],
         calls |-> Append(FetchCredentials(o).calls, "identity_lookup")]

\* create_sg_play_store_connection with the flag consulted only when the
\* site has no cached connection
create_connection_flag_after_cache(self, conns, dis, o) ==
    IF self.cls = "Base" THEN
        [ok |-> FALSE, err |-> Err("NotImplementedError", ""), conn |-> None,
         conns |-> conns, calls |-> <<>>]
    ELSE IF ~IsNone(conns[self.site]) THEN
        [ok |-> TRUE, err |-> None, conn |-> conns[self.site], conns |-> conns,
         calls |-> <<>>]
    ELSE IF dis THEN
        [ok |-> FALSE, err |-> Err("TankAppStoreConnectionError", "disabled"),
         conn |-> None, conns |-> conns, calls |-> <<>>]
    ELSE IF FetchCredentials(o).ok /\ IdentityLookup(o).ok THEN
        [ok |-> TRUE, err |-> None, conn |-> Connection(NextClient(conns)),
         conns |-> [conns EXCEPT ![self.site] = Connection(NextClient(conns))],
         calls |-> Append(FetchCredentials(o).calls, "identity_lookup")]
    ELSE
        [ok |-> FALSE, err |-> Err("TankAppStoreError", "other"), conn |-> None,
         conns |-> conns, calls |-> FetchCredentials(o).calls]

\* _create_sg_play_store_connection of the class of self, applied to the
\* connection cache conns with the flag dis and the outcomes o.
\* Returns [ok, err, conn, conns, calls].
create_sg_play_store_connection(self, conns, dis, o) ==
    IF self.cls = "Base" THEN
        \* playstore.py:229-236
        [ok |-> FALSE, err |-> Err("NotImplementedError", ""), conn |-> None,
         conns |-> conns, calls |-> <<>>]
    ELSE IF dis THEN
        \* tank_playstore.py:83-89
        [ok |-> FALSE, err |-> Err("TankAppStoreConnectionError", "disabled"),
         conn |-> None, conns |-> conns, calls |-> <<>>]
    ELSE IF ~IsNone(conns[self.site]) THEN
        \* tank_playstore.py:93, 174
        [ok |-> TRUE, err |-> None, conn |-> conns[self.site], conns |-> conns,
         calls |-> <<>>]
    ELSE
        LET f == FetchCredentials(o)
            l == IdentityLookup(o)
            c == Connection(NextClient(conns))
        IN  IF ~f.ok THEN
                [ok |-> FALSE, err |-> f.err, conn |-> None, conns |-> conns,
                 calls |-> f.calls]
            ELSE IF ~l.ok THEN
                [ok |-> FALSE, err |-> l.err, conn |-> None, conns |-> conns,
                 calls |-> Append(f.calls, "identity_lookup")]
            ELSE
                \* tank_playstore.py:172-174
                [ok |-> TRUE, err |-> None, conn |-> c,
                 conns |-> [conns EXCEPT ![self.site] = c],
                 calls |-> Append(f.calls, "identity_lookup")]

\* has_remote_access catching the errors of the store only
\* (except TankAppStoreError)
has_remote_access_narrow_except(self, conns, dis, o) ==
    LET r == create_sg_play_store_connection(self, conns, dis, o)
    IN  IF r.ok THEN
            [ok |-> TRUE, err |-> None, value |-> TRUE, conns |-> r.conns,
             calls |-> r.calls]
        ELSE IF r.err.type \in AppStoreErrorTypes THEN
            [ok |-> TRUE, err |-> None, value |-> FALSE, conns |-> r.conns,
             calls |-> r.calls]
        ELSE
            [ok |-> FALSE, err |-> r.err, value |-> FALSE, conns |-> r.conns,
             calls |-> r.calls]

\* has_remote_access dropping the cached connection of the site when the
\* probe fails
has_remote_access_evicting(self, conns, dis, o) ==
    LET r == create_sg_play_store_connection(self, conns, dis, o)
    IN  IF r.ok THEN
            [ok |-> TRUE, err |-> None, value |-> TRUE, conns |-> r.conns,
             calls |-> r.calls]
        ELSE
            [ok |-> TRUE, err |-> None, value |-> FALSE,
             conns |-> [r.conns EXCEPT ![self.site] = None], calls |-> r.calls]

\* has_remote_access (playstore.py:779-801).
\* Returns [ok, err, value, conns, calls]; ok = FALSE when an error leaves it.
has_remote_access(self, conns, dis, o) ==
    LET r == create_sg_play_store_connection(self, conns, dis, o)
    IN  IF r.ok THEN
            [ok |-> TRUE, err |-> None, value |-> TRUE, conns |-> r.conns,
             calls |-> r.calls]
        ELSE IF r.err.type \in ExceptionTypes THEN
            \* except Exception
            [ok |-> TRUE, err |-> None, value |-> FALSE, conns |-> r.conns,
             calls |-> r.calls]
        ELSE
            [ok |-> FALSE, err |-> r.err, value |-> FALSE, conns |-> r.conns,
             calls |-> r.calls]

(***************************************************************************)
(* The catalog                                                             *)
(***************************************************************************)

\* the tags field of a version record: a list of tags, null, or no such key
TagList(ts) == [k |-> "list", v |-> ts]
MissingKey == [k |-> "missing"]

\* a bundle level record (bundle_fields_to_cache, playstore.py:168-175)
BundleRec(status) ==
    [k |-> "bundle", sg_system_name |-> "foo", sg_status_list |-> status,
     sg_deprecation_message |-> "old"]

\* a version record (version_fields_to_cache, playstore.py:155-166)
VersionRec(code, status, tags) ==
    [k |-> "version", code |-> code, sg_status_list |-> status, tags |-> tags,
     description |-> "notes",
     sg_detailed_release_notes |-> [k |-> "attachment", url |-> "http://notes"]]

\* the tags of the i-th version of the fixture catalog
FixtureTags(i) ==
    CASE i = 1 -> TagList(<<Tag8x>>)
      [] i = 2 -> TagList(<<Tag9x>>)
      [] OTHER -> TagList(<<Tag9x, Tag8x>>)

\* catalogs: the version records are listed in the order of their creation
\* (created_at ascending); `core` are the records of CORE_VERSION_ENTITY_TYPE
CatalogFixture ==
    [bundle |-> BundleRec("dep"),
     versions |-> [i \in 1..MaxVersions |-> VersionRec(VersionPool[i], "ok", FixtureTags(i))],
     core |-> [i \in 1..MaxVersions |-> VersionRec(VersionPool[i], "ok", FixtureTags(i))]]

CatalogNoBundle == [bundle |-> None, versions |-> <<>>, core |-> <<>>]

\* the fixture without the records of the first version
CatalogNoVersion ==
    [CatalogFixture EXCEPT !.versions = Tail(CatalogFixture.versions),
                           !.core = Tail(CatalogFixture.core)]

Catalogs == {CatalogFixture, CatalogNoBundle}

\* outcomes of the catalog queries of one operation: which of them, if any,
\* fails in transport (the client raises)
QueryOutcomes == {"ok", "bundle_fault", "version_fault"}

RECURSIVE Reverse(_)
Reverse(s) == IF s = <<>> THEN <<>> ELSE Append(Reverse(Tail(s)), Head(s))

\* the version records of the catalog a descriptor of this kind queries
VersionsOfKind(cat, kind) == IF kind = "core" THEN cat.core ELSE cat.versions

\* sg.find_one(version entity, [[link, is, bundle], ["code", "is", version]])
FindOneVersion(cat, kind, version) ==
    LET hits == SelectSeq(VersionsOfKind(cat, kind), LAMBDA r : r.code = version)
    IN  IF hits = <<>> THEN None ELSE Head(hits)

(***************************************************************************)
(* The side-car metadata cache (playstore.py:238-358)                      *)
(***************************************************************************)

Disks == {"app_store", "play_store"}

\* <root>/<disk name>/<system name>/<version>; the kind stands for the name
Paths == [disk : Disks, kind : Kinds, version : Versions]

\* _get_bundle_cache_path (playstore.py:360-369)
get_bundle_cache_path(self) ==
    [disk |-> PLAY_STORE_DISK_NAME(self.cls), kind |-> self.kind, version |-> self.version]

\* the content of a side-car file: no file, a file pickle cannot load (empty,
\* truncated or otherwise corrupt), or the pickled dictionary
Absent == [k |-> "absent"]
Torn == [k |-> "torn"]
Metadata(b, v) == [k |-> "meta", sg_bundle_data |-> b, sg_version_data |-> v]

\* load_cached_play_store_metadata opening the file without the test of
\* os.path.exists: a side-car that is not there is an error
load_metadata_without_exists(sc, path) ==
    IF sc[path] = Absent
    THEN [ok |-> FALSE, err |-> Err("IOError", "no such file"), value |-> None]
    ELSE IF sc[path] = Torn
    THEN [ok |-> FALSE, err |-> Err("UnpicklingError", "corrupt"), value |-> None]
    ELSE [ok |-> TRUE, err |-> None, value |-> sc[path]]

\* _load_cached_play_store_metadata (playstore.py:238-258).
\* Returns [ok, err, value].
load_cached_play_store_metadata(sc, path) ==
    IF sc[path] # Absent THEN
        \* os.path.exists(cache_file): pickle.load(fp), outside any except
        IF sc[path] = Torn
        THEN [ok |-> FALSE, err |-> Err("UnpicklingError", "corrupt"), value |-> None]
        ELSE [ok |-> TRUE, err |-> None, value |-> sc[path]]
    ELSE
        [ok |-> TRUE, err |-> None, value |-> EmptyDict]

\* outcomes of writing the side-car: written, open(cache_file, "wb") fails
\* (read-only cache), or the write fails after the file was opened
WriteOutcomes == {"ok", "open_fails", "dump_fails"}

\* WriteSidecar updating the dictionary of the file, not replacing it: a
\* record the new metadata does not have stays as it was in the file
WriteSidecarMerging(sc, mat, path, metadata, w) ==
    IF path \notin mat \/ w = "open_fails" THEN sc
    ELSE IF w = "dump_fails" THEN [sc EXCEPT ![path] = Torn]
    ELSE IF sc[path].k # "meta" THEN [sc EXCEPT ![path] = metadata]
    ELSE [sc EXCEPT ![path] =
             Metadata(IF IsNone(metadata.sg_bundle_data) THEN sc[path].sg_bundle_data
                      ELSE metadata.sg_bundle_data,
                      IF IsNone(metadata.sg_version_data) THEN sc[path].sg_version_data
                      ELSE metadata.sg_version_data)]

\* playstore.py:346-356: the file after the attempt to write metadata.
\* open(..., "wb") truncates the file; there is no directory to open the
\* file in when the path is not materialized.
WriteSidecar(sc, mat, path, metadata, w) ==
    IF path \notin mat \/ w = "open_fails" THEN sc
    ELSE IF w = "dump_fails" THEN [sc EXCEPT ![path] = Torn]
    ELSE [sc EXCEPT ![path] = metadata]

\* whether the write of WriteSidecar completed
Wrote(mat, path, w) == path \in mat /\ w = "ok"

\* playstore.py:295-335: the lookups of a connected descriptor; c is the
\* outcome of the connection, b and v the records the catalog holds.
\* Returns [ok, err, b, v, conns, calls].
FetchFail(c, e, cs) ==
    [ok |-> FALSE, err |-> e, b |-> None, v |-> None, conns |-> c.conns,
     calls |-> c.calls \o cs]

FetchRecords(self, q, c, b, v) ==
    IF ~c.ok THEN FetchFail(c, c.err, <<>>)
    ELSE IF self.kind = "core" THEN
        \* playstore.py:295-308
        IF q = "version_fault"
        THEN FetchFail(c, Err("Fault", "catalog"), <<"find_one_version">>)
        ELSE IF IsNone(v)
        THEN FetchFail(c, Err("TankDescriptorError", "no such version"),
                       <<"find_one_version">>)
        ELSE [ok |-> TRUE, err |-> None, b |-> None, v |-> v, conns |-> c.conns,
              calls |-> c.calls \o <<"find_one_version">>]
    ELSE
        \* playstore.py:309-335
        IF q = "bundle_fault"
        THEN FetchFail(c, Err("Fault", "catalog"), <<"find_one_bundle">>)
        ELSE IF IsNone(b)
        THEN FetchFail(c, Err("TankDescriptorError", "no such item"), <<"find_one_bundle">>)
        ELSE IF q = "version_fault"
        THEN FetchFail(c, Err("Fault", "catalog"), <<"find_one_bundle", "find_one_version">>)
        ELSE IF IsNone(v)
        THEN FetchFail(c, Err("TankDescriptorError", "no such version"),
                       <<"find_one_bundle", "find_one_version">>)
        ELSE [ok |-> TRUE, err |-> None, b |-> b, v |-> v, conns |-> c.conns,
              calls |-> c.calls \o <<"find_one_bundle", "find_one_version">>]

\* playstore.py:285-335: connect, then look the records up
FetchMetadata(self, conns, dis, cat, o, q) ==
    FetchRecords(self, q, create_sg_play_store_connection(self, conns, dis, o),
                 cat.bundle, FindOneVersion(cat, self.kind, self.version))

\* WriteAndReturn without the try of playstore.py:346: the error of a write
\* that fails reaches the caller
WriteAndReturnRaising(sc, mat, path, metadata, conns, cs, w) ==
    [ok |-> Wrote(mat, path, w),
     err |-> IF Wrote(mat, path, w) THEN None ELSE Err("IOError", "write"),
     value |-> IF Wrote(mat, path, w) THEN metadata ELSE None, conns |-> conns,
     sidecar |-> WriteSidecar(sc, mat, path, metadata, w), calls |-> cs,
     wrote |-> Wrote(mat, path, w)]

\* playstore.py:337-358: write the metadata, whatever comes of it, and return it
WriteAndReturn(sc, mat, path, metadata, conns, cs, w) ==
    [ok |-> TRUE, err |-> None, value |-> metadata, conns |-> conns,
     sidecar |-> WriteSidecar(sc, mat, path, metadata, w), calls |-> cs,
     wrote |-> Wrote(mat, path, w)]

\* RefreshFetched opening the side-car for writing before it looks the
\* records up: a refresh that fails leaves the file empty
RefreshFetchedTruncating(sc, mat, path, w, f) ==
    IF ~f.ok THEN
        [ok |-> FALSE, err |-> f.err, value |-> None, conns |-> f.conns,
         sidecar |-> WriteSidecar(sc, mat, path, None, "dump_fails"),
         calls |-> f.calls, wrote |-> FALSE]
    ELSE WriteAndReturn(sc, mat, path, Metadata(f.b, f.v), f.conns, f.calls, w)

\* playstore.py:284-358 once the lookups f are made
RefreshFetched(sc, mat, path, w, f) ==
    IF ~f.ok THEN
        [ok |-> FALSE, err |-> f.err, value |-> None, conns |-> f.conns, sidecar |-> sc,
         calls |-> f.calls, wrote |-> FALSE]
    ELSE WriteAndReturn(sc, mat, path, Metadata(f.b, f.v), f.conns, f.calls, w)

\* refresh_metadata taking the pre-fetched branch only when both records are
\* supplied
refresh_metadata_both_required(self, path, sg_bundle_data, sg_version_data, conns, dis, cat, sc, mat, o, q, w) ==
    IF Truthy(sg_bundle_data) /\ Truthy(sg_version_data) THEN
        WriteAndReturn(sc, mat, path, Metadata(sg_bundle_data, sg_version_data), conns,
                       <<>>, w)
    ELSE RefreshFetched(sc, mat, path, w, FetchMetadata(self, conns, dis, cat, o, q))

\* _refresh_metadata (playstore.py:260-358) of self for path, with the data
\* the caller supplies (None when not supplied).
\* Returns [ok, err, value, conns, sidecar, calls, wrote].
refresh_metadata(self, path, sg_bundle_data, sg_version_data, conns, dis, cat, sc, mat, o, q, w) ==
    IF Truthy(sg_version_data) THEN
        \* playstore.py:280-283: pre-fetched data, no check of sg_bundle_data
        WriteAndReturn(sc, mat, path, Metadata(sg_bundle_data, sg_version_data), conns,
                       <<>>, w)
    ELSE RefreshFetched(sc, mat, path, w, FetchMetadata(self, conns, dis, cat, o, q))

(***************************************************************************)
(* Label matcher and version pattern matcher                               *)
(***************************************************************************)

\* fnmatch.fnmatch(name, pat) on character sequences: * matches any run of
\* characters, ? one character, any other character itself
RECURSIVE Fnmatch(_, _)
Fnmatch(name, pat) ==
    IF pat = <<>> THEN name = <<>>
    ELSE IF Head(pat) = "*" THEN
        Fnmatch(name, Tail(pat)) \/ (name # <<>> /\ Fnmatch(Tail(name), pat))
    ELSE IF Head(pat) = "?" THEN name # <<>> /\ Fnmatch(Tail(name), Tail(pat))
    ELSE name # <<>> /\ Head(name) = Head(pat) /\ Fnmatch(Tail(name), Tail(pat))

\* match_label with the arguments of fnmatch exchanged: the tag is the
\* subject and the label the pattern
match_label_tag_as_subject(self, tag_list) ==
    IF IsNone(self.label) THEN TRUE
    ELSE IF IsNone(tag_list) THEN FALSE
    ELSE \E i \in 1..Len(tag_list.v) : Fnmatch(tag_list.v[i], self.label.s)

\* _match_label (playstore.py:731-751); tag_list is None or TagList(tags)
match_label(self, tag_list) ==
    IF IsNone(self.label) THEN TRUE
    ELSE IF IsNone(tag_list) THEN FALSE
    ELSE \E i \in 1..Len(tag_list.v) : Fnmatch(self.label.s, tag_list.v[i])

\* [x["name"] for x in record["tags"]] (playstore.py:550, 666): the list of
\* tag names, or the error the expression raises.  Returns [ok, err, value].
TagNames(record) ==
    IF record.k # "version" THEN
        \* None["tags"] or {}["tags"]
        [ok |-> FALSE, value |-> None,
         err |-> IF IsNone(record) THEN Err("TypeError", "tags") ELSE Err("KeyError", "tags")]
    ELSE IF record.tags = MissingKey THEN
        [ok |-> FALSE, err |-> Err("KeyError", "tags"), value |-> None]
    ELSE IF IsNone(record.tags) THEN
        \* for x in None
        [ok |-> FALSE, err |-> Err("TypeError", "tags"), value |-> None]
    ELSE [ok |-> TRUE, err |-> None, value |-> record.tags]

\* the wildcard segment x of a constraint pattern such as v1.x.x
Wild == 0 - 1

Patterns ==
    {None, Str(<<1, Wild, Wild>>), Str(<<9, Wild, Wild>>), Str(VersionPool[1]),
     Str(<<3, 0, 0>>)}

\* bool(constraint_pattern): None and "" are not a constraint
HasPattern(pattern) == ~IsNone(pattern) /\ pattern.s # <<>>

\* the i-th segment of a version, zero when the version is shorter
Segment(v, i) == IF i <= Len(v) THEN v[i] ELSE 0

\* version ordering: a is newer than b, by numeric comparison of the segments
VersionNewer(a, b) ==
    \E i \in 1..(Len(a) + Len(b)) :
        /\ Segment(a, i) > Segment(b, i)
        /\ \A j \in 1..(i - 1) : Segment(a, j) = Segment(b, j)

\* the version-ordering maximum of a non-empty set of versions
LatestOf(vs) == CHOOSE v \in vs : \A u \in vs : u = v \/ VersionNewer(v, u)

\* the segments of a pattern before its first wildcard
RECURSIVE LiteralPrefix(_)
LiteralPrefix(p) ==
    IF p = <<>> \/ Head(p) = Wild THEN <<>> ELSE <<Head(p)>> \o LiteralPrefix(Tail(p))

\* whether version v satisfies the wildcard pattern p
SatisfiesPattern(v, p) ==
    LET pre == LiteralPrefix(p)
    IN  Len(v) >= Len(pre) /\ \A i \in 1..Len(pre) : v[i] = pre[i]

\* _find_latest_tag_by_pattern of the base class: the chosen version as
\* Str(version), or None
find_latest_tag_by_pattern(version_numbers, pattern) ==
    IF version_numbers = {} THEN None
    ELSE IF IsNone(pattern) THEN Str(LatestOf(version_numbers))
    ELSE IF \A i \in 1..Len(pattern.s) : pattern.s[i] # Wild THEN
        IF pattern.s \in version_numbers THEN Str(pattern.s) ELSE None
    ELSE
        LET matching == {v \in version_numbers : SatisfiesPattern(v, pattern.s)}
        IN  IF matching = {} THEN None ELSE Str(LatestOf(matching))

(***************************************************************************)
(* The local cache inventory                                               *)
(***************************************************************************)

\* get_path of the base class: the cache path of the descriptor when the
\* directory exists, None otherwise
get_path(self, mat) ==
    IF get_bundle_cache_path(self) \in mat THEN get_bundle_cache_path(self) ELSE None

\* _get_locally_cached_versions of the base class: the versions of this name
\* that are materialized under the disk name of the class of self
get_locally_cached_versions(self, mat) ==
    {p.version : p \in {x \in mat : x.disk = PLAY_STORE_DISK_NAME(self.cls)
                                   /\ x.kind = self.kind}}

\* the path of a locally cached version of self
CachedPath(self, version) ==
    [disk |-> PLAY_STORE_DISK_NAME(self.cls), kind |-> self.kind, version |-> version]

\* the descriptor get_latest_version and get_latest_cached_version return:
\* IODescriptorPlayStoreBase(descriptor_dict, self._sg_connection,
\* self._bundle_type) (playstore.py:572-586, 706-720)
NewDescriptor(self, version) ==
    [cls |-> "Base", site |-> self.site, kind |-> self.kind, version |-> version,
     label |-> self.label]

(***************************************************************************)
(* Queries on the local cache                                              *)
(***************************************************************************)

\* playstore.py:548-557: whether a cached version survives the label filter,
\* given the outcome m of loading its metadata; every error of the tag
\* lookup and of the match is swallowed (the try of line 549)
TagsMatch(self, t) == t.ok /\ match_label(self, t.value)

LabelSurvives(self, m) ==
    m.ok /\ m.value.k = "meta" /\ TagsMatch(self, TagNames(m.value.sg_version_data))

\* playstore.py:542-561: the versions that remain candidates
CachedCandidates(self, sc, all_versions) ==
    IF ~IsNone(self.label)
    THEN {v \in all_versions :
            LabelSurvives(self, load_cached_play_store_metadata(sc, CachedPath(self, v)))}
    ELSE all_versions

\* playstore.py:563-589
ReturnCached(self, version_to_use) ==
    IF IsNone(version_to_use) THEN [ok |-> TRUE, err |-> None, value |-> None]
    ELSE [ok |-> TRUE, err |-> None, value |-> NewDescriptor(self, version_to_use.s)]

\* the cached versions whose side-car the load of playstore.py:548 fails on
Unloadable(self, sc, all_versions) ==
    {v \in all_versions :
        ~load_cached_play_store_metadata(sc, CachedPath(self, v)).ok}

\* ChooseCached without the constraint pattern: the latest candidate,
\* whatever is asked
ChooseCachedUnconstrained(self, constraint_pattern, sc, all_versions) ==
    IF ~IsNone(self.label) /\ Unloadable(self, sc, all_versions) # {} THEN
        [ok |-> FALSE, err |-> Err("UnpicklingError", "corrupt"), value |-> None]
    ELSE ReturnCached(self, find_latest_tag_by_pattern(
                                CachedCandidates(self, sc, all_versions), None))

\* playstore.py:542-589 for the versions found in the cache
ChooseCached(self, constraint_pattern, sc, all_versions) ==
    IF ~IsNone(self.label) /\ Unloadable(self, sc, all_versions) # {} THEN
        \* the load of playstore.py:548 is outside the try of line 549
        [ok |-> FALSE, err |-> Err("UnpicklingError", "corrupt"), value |-> None]
    ELSE ReturnCached(self, find_latest_tag_by_pattern(
                                CachedCandidates(self, sc, all_versions), constraint_pattern))

\* get_latest_cached_version (playstore.py:527-589).
\* Returns [ok, err, value]: value is the descriptor, or None.
get_latest_cached_version(self, constraint_pattern, sc, mat) ==
    ChooseCached(self, constraint_pattern, sc, get_locally_cached_versions(self, mat))

\* metadata.get(key) or {} (playstore.py:424, 453)
GetOrEmpty(m, key) ==
    IF m.value.k = "meta" /\ Truthy(m.value[key]) THEN m.value[key] ELSE EmptyDict

\* playstore.py:424-429 for the loaded metadata m
DeprecationOf(m, sg_bundle_data) ==
    IF ~m.ok THEN [ok |-> FALSE, err |-> m.err, value |-> None]
    ELSE IF sg_bundle_data.k = "bundle" /\ sg_bundle_data.sg_status_list = "dep" THEN
        [ok |-> TRUE, err |-> None,
         value |-> [deprecated |-> TRUE, msg |-> sg_bundle_data.sg_deprecation_message]]
    ELSE [ok |-> TRUE, err |-> None, value |-> [deprecated |-> FALSE, msg |-> ""]]

\* get_deprecation_status (playstore.py:412-429) of a descriptor that is
\* local.  Returns [ok, err, value].
get_deprecation_status(self, sc, mat) ==
    DeprecationOf(load_cached_play_store_metadata(sc, get_path(self, mat)),
                  GetOrEmpty(load_cached_play_store_metadata(sc, get_path(self, mat)),
                             "sg_bundle_data"))

\* playstore.py:452-458 for the loaded metadata m
ChangelogOf(m, sg_version_data) ==
    IF ~m.ok THEN
        \* the load of playstore.py:451 is outside the try of line 452
        [ok |-> FALSE, err |-> m.err, value |-> None]
    ELSE IF sg_version_data.k = "version" THEN
        [ok |-> TRUE, err |-> None,
         value |-> [summary |-> Str(sg_version_data.description),
                    url |-> Str(sg_version_data.sg_detailed_release_notes.url)]]
    ELSE
        \* {}.get("sg_detailed_release_notes") is None: the AttributeError of
        \* None.get is swallowed
        [ok |-> TRUE, err |-> None, value |-> [summary |-> None, url |-> None]]

\* get_changelog (playstore.py:437-458) of a descriptor that is local.
\* Returns [ok, err, value].
get_changelog(self, sc, mat) ==
    ChangelogOf(load_cached_play_store_metadata(sc, get_path(self, mat)),
                GetOrEmpty(load_cached_play_store_metadata(sc, get_path(self, mat)),
                           "sg_version_data"))

(***************************************************************************)
(* Remote resolution (playstore.py:591-729)                                *)
(***************************************************************************)

\* ExcludedStatuses with a QA mode that lifts the whole filter
ExcludedStatusesNoneInQa(qa) == IF qa THEN {} ELSE {"rev", "bad"}

\* the statuses the filter of playstore.py:613-619 excludes
ExcludedStatuses(qa) == IF qa THEN {"bad"} ELSE {"rev", "bad"}

\* Limited keeping the last records of the query, not the first
LimitedFromEnd(all, limit) ==
    IF limit = 0 \/ Len(all) <= limit THEN all
    ELSE SubSeq(all, Len(all) - limit + 1, Len(all))

\* the records of the query newest first, cut to the limit (0: all records)
Limited(all, limit) ==
    IF limit = 0 \/ Len(all) <= limit THEN all ELSE SubSeq(all, 1, limit)

\* FindVersions with the records in the order of their creation, oldest first
FindVersionsOldestFirst(cat, kind, qa, limit) ==
    Limited(SelectSeq(VersionsOfKind(cat, kind),
                      LAMBDA r : r.sg_status_list \notin ExcludedStatuses(qa)),
            limit)

\* sg.find(entity_type, filters, fields, order created_at desc, limit)
\* (playstore.py:653-659)
FindVersions(cat, kind, qa, limit) ==
    Limited(Reverse(SelectSeq(VersionsOfKind(cat, kind),
                              LAMBDA r : r.sg_status_list \notin ExcludedStatuses(qa))),
            limit)

\* playstore.py:682: [x.get("code") for x in matching_records]
Codes(records) == [i \in 1..Len(records) |-> records[i].code]

\* the set of the elements of a list
Elements(s) == {s[i] : i \in 1..Len(s)}

\* ChooseByPattern with an error that does not say what was considered
ChooseByPatternUnlisted(matching_records, version_to_use) ==
    IF IsNone(version_to_use) THEN
        [ok |-> FALSE, record |-> None,
         err |-> Err("TankDescriptorError", "no version matching the pattern")]
    ELSE
        [ok |-> TRUE, err |-> None,
         record |-> Head(SelectSeq(matching_records, LAMBDA r : r.code = version_to_use.s))]

\* playstore.py:686-699
ChooseByPattern(matching_records, version_to_use) ==
    IF IsNone(version_to_use) THEN
        [ok |-> FALSE, record |-> None,
         err |-> [Err("TankDescriptorError", "no version matching the pattern")
                  EXCEPT !.considered = Codes(matching_records)]]
    ELSE
        [ok |-> TRUE, err |-> None,
         record |-> Head(SelectSeq(matching_records, LAMBDA r : r.code = version_to_use.s))]

\* ChooseMatching without the pattern: the first record, whatever is asked
ChooseMatchingFirst(constraint_pattern, matching_records) ==
    IF Len(matching_records) = 0 THEN
        [ok |-> FALSE, err |-> Err("TankDescriptorError", "cannot find any versions"),
         record |-> None]
    ELSE [ok |-> TRUE, err |-> None, record |-> matching_records[1]]

\* playstore.py:674-704
ChooseMatching(constraint_pattern, matching_records) ==
    IF Len(matching_records) = 0 THEN
        [ok |-> FALSE, err |-> Err("TankDescriptorError", "cannot find any versions"),
         record |-> None]
    ELSE IF HasPattern(constraint_pattern) THEN
        ChooseByPattern(matching_records,
                        find_latest_tag_by_pattern(Elements(Codes(matching_records)),
                                                   constraint_pattern))
    ELSE [ok |-> TRUE, err |-> None, record |-> matching_records[1]]

\* the first record of the query whose tags playstore.py:666 cannot list
FirstUnlisted(sg_versions) ==
    sg_versions[CHOOSE i \in 1..Len(sg_versions) :
                    /\ ~TagNames(sg_versions[i]).ok
                    /\ \A j \in 1..(i - 1) : TagNames(sg_versions[j]).ok]

\* ChooseVersion without the label filter of playstore.py:667
ChooseVersionUnfiltered(self, constraint_pattern, sg_versions) ==
    IF \E i \in 1..Len(sg_versions) : ~TagNames(sg_versions[i]).ok THEN
        [ok |-> FALSE, record |-> None, err |-> TagNames(FirstUnlisted(sg_versions)).err]
    ELSE ChooseMatching(constraint_pattern, sg_versions)

\* playstore.py:663-704: the record chosen among the records of the query.
\* Returns [ok, err, record].
ChooseVersion(self, constraint_pattern, sg_versions) ==
    IF \E i \in 1..Len(sg_versions) : ~TagNames(sg_versions[i]).ok THEN
        \* the comprehension of playstore.py:666 is in no try
        [ok |-> FALSE, record |-> None, err |-> TagNames(FirstUnlisted(sg_versions)).err]
    ELSE
        ChooseMatching(constraint_pattern,
                       SelectSeq(sg_versions, LAMBDA r : match_label(self, r.tags)))

\* the outcome of get_latest_version when it raises e after the calls cs
ResolveFail(c, sc, e, cs) ==
    [ok |-> FALSE, err |-> e, value |-> None, conns |-> c.conns, sidecar |-> sc,
     calls |-> c.calls \o cs, refreshed |-> FALSE, wrote |-> FALSE]

\* playstore.py:725-729: r is the outcome of the refresh of desc
ReturnRefreshed(desc, cs, r) ==
    [ok |-> r.ok, err |-> r.err, value |-> IF r.ok THEN desc ELSE None,
     conns |-> r.conns, sidecar |-> r.sidecar, calls |-> cs \o r.calls,
     refreshed |-> TRUE, wrote |-> r.wrote]

\* ReturnChosen with a refresh that is not handed the records of the call
\* and looks them up again
ReturnChosenRefetching(desc, sg_bundle_data, record, c, dis, cat, sc, mat, o, q, w, cs) ==
    IF IsNone(get_path(desc, mat)) THEN
        [ok |-> TRUE, err |-> None, value |-> desc, conns |-> c.conns, sidecar |-> sc,
         calls |-> c.calls \o cs, refreshed |-> FALSE, wrote |-> FALSE]
    ELSE
        ReturnRefreshed(desc, c.calls \o cs,
                        refresh_metadata([desc EXCEPT !.cls = "Tank"], get_path(desc, mat),
                                         None, None, c.conns, dis, cat, sc, mat, o, q, w))

\* playstore.py:706-729: the descriptor of the chosen record, refreshed when
\* it has a path
ReturnChosen(desc, sg_bundle_data, record, c, dis, cat, sc, mat, o, q, w, cs) ==
    IF IsNone(get_path(desc, mat)) THEN
        [ok |-> TRUE, err |-> None, value |-> desc, conns |-> c.conns, sidecar |-> sc,
         calls |-> c.calls \o cs, refreshed |-> FALSE, wrote |-> FALSE]
    ELSE
        ReturnRefreshed(desc, c.calls \o cs,
                        refresh_metadata(desc, get_path(desc, mat), sg_bundle_data, record,
                                         c.conns, dis, cat, sc, mat, o, q, w))

\* playstore.py:663-729 for the outcome chosen of the choice
Resolved(self, sg_bundle_data, chosen, c, dis, cat, sc, mat, o, q, w, cs) ==
    IF ~chosen.ok THEN ResolveFail(c, sc, chosen.err, cs)
    ELSE ReturnChosen(NewDescriptor(self, chosen.record.code), sg_bundle_data,
                      chosen.record, c, dis, cat, sc, mat, o, q, w, cs)

\* playstore.py:646-650
QueryLimit(self, constraint_pattern) ==
    IF IsNone(self.label) /\ IsNone(constraint_pattern) THEN 1 ELSE 0

\* the queries of get_latest_version, as they appear in calls
VersionQuery(limit) == IF limit = 1 THEN "find_versions_limit_1" ELSE "find_versions_all"
BundleQuery(self) == IF self.kind = "core" THEN <<>> ELSE <<"find_one_bundle">>

\* Resolve issuing the version query a second time when it failed
ResolveRetrying(self, constraint_pattern, qa, c, dis, cat, sc, mat, o, q, w) ==
    IF ~c.ok THEN ResolveFail(c, sc, c.err, <<>>)
    ELSE IF self.kind # "core" /\ q = "bundle_fault"
    THEN ResolveFail(c, sc, Err("Fault", "catalog"), BundleQuery(self))
    ELSE IF self.kind # "core" /\ IsNone(cat.bundle)
    THEN ResolveFail(c, sc, Err("TankDescriptorError", "no such item"), BundleQuery(self))
    ELSE IF q = "version_fault"
    THEN ResolveFail(c, sc, Err("Fault", "catalog"),
                     BundleQuery(self)
                       \o <<VersionQuery(QueryLimit(self, constraint_pattern)),
                            VersionQuery(QueryLimit(self, constraint_pattern))>>)
    ELSE
        Resolved(self, IF self.kind = "core" THEN None ELSE cat.bundle,
                 ChooseVersion(self, constraint_pattern,
                               FindVersions(cat, self.kind, qa,
                                            QueryLimit(self, constraint_pattern))),
                 c, dis, cat, sc, mat, o, q, w,
                 Append(BundleQuery(self), VersionQuery(QueryLimit(self, constraint_pattern))))

\* playstore.py:612-729 for the outcome c of the connection
Resolve(self, constraint_pattern, qa, c, dis, cat, sc, mat, o, q, w) ==
    IF ~c.ok THEN ResolveFail(c, sc, c.err, <<>>)
    ELSE IF self.kind # "core" /\ q = "bundle_fault"
    THEN ResolveFail(c, sc, Err("Fault", "catalog"), BundleQuery(self))
    ELSE IF self.kind # "core" /\ IsNone(cat.bundle)
    THEN ResolveFail(c, sc, Err("TankDescriptorError", "no such item"), BundleQuery(self))
    ELSE IF q = "version_fault"
    THEN ResolveFail(c, sc, Err("Fault", "catalog"),
                     Append(BundleQuery(self),
                            VersionQuery(QueryLimit(self, constraint_pattern))))
    ELSE
        Resolved(self, IF self.kind = "core" THEN None ELSE cat.bundle,
                 ChooseVersion(self, constraint_pattern,
                               FindVersions(cat, self.kind, qa,
                                            QueryLimit(self, constraint_pattern))),
                 c, dis, cat, sc, mat, o, q, w,
                 Append(BundleQuery(self), VersionQuery(QueryLimit(self, constraint_pattern))))

\* get_latest_version (playstore.py:591-729).
\* Returns [ok, err, value, conns, sidecar, calls, refreshed, wrote].
get_latest_version(self, constraint_pattern, qa, conns, dis, cat, sc, mat, o, q, w) ==
    Resolve(self, constraint_pattern, qa,
            create_sg_play_store_connection(self, conns, dis, o), dis, cat, sc, mat, o, q, w)

\* what the version record holds in TANK_CODE_PAYLOAD_FIELD: the attachment
\* of an uploaded file, or nothing
PayloadFields == {"uploaded", "missing"}

\* outcomes of shotgun.download_and_unpack_attachment: unpacked, or
\* ShotgunAttachmentDownloadError once its attempts have failed
DownloadOutcomes == {"ok", "fault"}

\* the outcome of _download_local when it raises e after the calls cs: the
\* bundle is not in the destination folder, the side-car is as sc
DownloadFail(conns, sc, mat, e, cs, fetched, attempted) ==
    [ok |-> FALSE, err |-> e, value |-> None, conns |-> conns, sidecar |-> sc,
     materialized |-> mat, calls |-> cs, fetched |-> fetched, attempted |-> attempted]

\* DownloadPayload with the error of the download logged and not raised
DownloadPayloadSwallowing(r, destination_path, sc, mat, cs, a, d) ==
    IF ~r.ok THEN DownloadFail(r.conns, sc, mat, r.err, cs \o r.calls, FALSE, FALSE)
    ELSE IF a = "missing"
    THEN DownloadFail(r.conns, r.sidecar, mat, Err("TypeError", "payload"), cs \o r.calls,
                      TRUE, FALSE)
    ELSE [ok |-> TRUE, err |-> None, value |-> None, conns |-> r.conns,
          sidecar |-> r.sidecar, materialized |-> mat \cup {destination_path},
          calls |-> cs \o r.calls \o <<"download_attachment">>,
          fetched |-> TRUE, attempted |-> TRUE]

\* playstore.py:472-488 for the outcome r of the refresh: the attachment id
\* of the version record, then the download
DownloadPayload(r, destination_path, sc, mat, cs, a, d) ==
    IF ~r.ok THEN DownloadFail(r.conns, sc, mat, r.err, cs \o r.calls, FALSE, FALSE)
    ELSE IF a = "missing"
    THEN \* version[self.TANK_CODE_PAYLOAD_FIELD]["id"] with no attachment
         DownloadFail(r.conns, r.sidecar, mat, Err("TypeError", "payload"), cs \o r.calls,
                      TRUE, FALSE)
    ELSE IF d = "fault"
    THEN DownloadFail(r.conns, r.sidecar, mat,
                      Err("TankAppStoreError", "failed to download"),
                      cs \o r.calls \o <<"download_attachment">>, TRUE, TRUE)
    ELSE [ok |-> TRUE, err |-> None, value |-> None, conns |-> r.conns,
          sidecar |-> r.sidecar, materialized |-> mat \cup {destination_path},
          calls |-> cs \o r.calls \o <<"download_attachment">>,
          fetched |-> TRUE, attempted |-> TRUE]

\* playstore.py:466-488 for the outcome c of the connection; the
\* destination folder is there for the refresh to write in
DownloadConnected(self, destination_path, c, dis, cat, sc, mat, o, q, w, a, d) ==
    IF ~c.ok THEN DownloadFail(c.conns, sc, mat, c.err, c.calls, FALSE, FALSE)
    ELSE DownloadPayload(refresh_metadata(self, destination_path, None, None, c.conns,
                                          dis, cat, sc, mat \cup {destination_path},
                                          o, q, w),
                         destination_path, sc, mat, c.calls, a, d)

\* _download_local (playstore.py:460-488).
\* Returns [ok, err, value, conns, sidecar, materialized, calls, fetched, attempted].
download_local(self, destination_path, conns, dis, cat, sc, mat, o, q, w, a, d) ==
    DownloadConnected(self, destination_path,
                      create_sg_play_store_connection(self, conns, dis, o),
                      dis, cat, sc, mat, o, q, w, a, d)

\* outcomes of sg.create("EventLogEntry", data) on the catalog
EventOutcomes == {"ok", "fault"}

\* the outcome of the body of _post_download: failed with e, or done
ReceiptFail(conns, sc, e, cs) ==
    [ok |-> FALSE, err |-> e, value |-> None, conns |-> conns, sidecar |-> sc,
     calls |-> cs]

\* playstore.py:503-519 for the outcome r of the refresh: the usage event is
\* created from the metadata
CreateReceipt(r, cs, e) ==
    IF ~r.ok THEN ReceiptFail(r.conns, r.sidecar, r.err, cs \o r.calls)
    ELSE IF e = "fault"
    THEN ReceiptFail(r.conns, r.sidecar, Err("Fault", "catalog"),
                     cs \o r.calls \o <<"create_event">>)
    ELSE [ok |-> TRUE, err |-> None, value |-> None, conns |-> r.conns,
          sidecar |-> r.sidecar, calls |-> cs \o r.calls \o <<"create_event">>]

\* playstore.py:497-519: the body of the try of _post_download for the
\* outcome c of its connection
WriteReceipt(self, download_path, c, dis, cat, sc, mat, o, q, w, e) ==
    IF ~c.ok THEN ReceiptFail(c.conns, sc, c.err, c.calls)
    ELSE CreateReceipt(refresh_metadata(self, download_path, None, None, c.conns, dis,
                                        cat, sc, mat, o, q, w),
                       c.calls, e)

\* Swallowed letting the error of the body out
SwallowedNot(r) == r

\* playstore.py:520-521: except Exception, the error is logged
Swallowed(r) == [r EXCEPT !.ok = TRUE, !.err = None]

\* _post_download (playstore.py:490-521).
\* Returns [ok, err, value, conns, sidecar, calls].
post_download(self, download_path, conns, dis, cat, sc, mat, o, q, w, e) ==
    Swallowed(WriteReceipt(self, download_path,
                           create_sg_play_store_connection(self, conns, dis, o),
                           dis, cat, sc, mat, o, q, w, e))

(***************************************************************************)
(* The state machine                                                       *)
(***************************************************************************)

\* what the caller of an operation observes, with the inputs of the call
Result(op, self, args, r) ==
    [op |-> op, self |-> self, args |-> args, ok |-> r.ok, err |-> r.err,
     value |-> r.value]

NoArgs == [k |-> "args"]

\* the threads of the process that ask for a connection at the same time
Threads == {1, 2, 3}

\* a thread that has not called _create_sg_play_store_connection yet:
\* pc is the statement it is at, site its self._sg_connection.base_url,
\* pair the local (play_store_sg, script_user), value what it returned,
\* stored the rank of its write among the writes of the map
Idle == [pc |-> "idle", site |-> "", pair |-> None, value |-> None, stored |-> 0]

\* bundle caches a process may find on disk when it starts: the newest
\* version of the app under both disk names; every version of the app under
\* the disk name of the deployment; one version of the core
InventoryBoth ==
    {[disk |-> d, kind |-> "app", version |-> VersionPool[MaxVersions]] : d \in Disks}
InventoryApp == {[disk |-> "app_store", kind |-> "app", version |-> v] : v \in Versions}
InventoryCore == {[disk |-> "app_store", kind |-> "core", version |-> VersionPool[1]]}

\* the state of a process that starts with one of the inventories I and one
\* of the catalogs C: no connection yet, no side-car written yet
InitWith(I, C) ==
    /\ connections = [s \in Sites |-> None]
    /\ disabled = FALSE
    /\ materialized \in I
    /\ sidecar = [p \in Paths |-> Absent]
    /\ catalog \in C
    /\ writing = {}
    /\ result = Result("init", None, NoArgs, [ok |-> TRUE, err |-> None, value |-> None])
    /\ calls = <<>>
    /\ threads = [t \in Threads |-> Idle]

\* the host sets or clears the disable-remote-access flag
SetDisabled ==
    /\ disabled' = ~disabled
    /\ result' = Result("set_disabled", None, NoArgs,
                        [ok |-> TRUE, err |-> None, value |-> None])
    /\ calls' = <<>>
    /\ UNCHANGED <<threads, connections, materialized, sidecar, catalog, writing>>

\* the answers to draw for a connection of self: those of O when the
\* attempt asks the site and the catalog, one when it asks nothing
Asked(self, O) ==
    IF self.cls = "Tank" /\ ~disabled /\ IsNone(connections[self.site]) THEN O
    ELSE {ConnUp}

\* a caller asks for the catalog connection
Connect(D, O) ==
    \E self \in D : \E o \in Asked(self, O) :
        LET r == create_sg_play_store_connection(self, connections, disabled, o)
        IN  /\ connections' = r.conns
            /\ result' = Result("connect", self, [o |-> o],
                                [ok |-> r.ok, err |-> r.err, value |-> r.conn])
            /\ calls' = r.calls
            /\ UNCHANGED <<threads, disabled, materialized, sidecar, catalog, writing>>

HasRemoteAccess(D, O) ==
    \E self \in D : \E o \in Asked(self, O) :
        LET r == has_remote_access(self, connections, disabled, o)
        IN  /\ connections' = r.conns
            /\ result' = Result("has_remote_access", self, [o |-> o], r)
            /\ calls' = r.calls
            /\ UNCHANGED <<threads, disabled, materialized, sidecar, catalog, writing>>

GetLatestVersion(D, P, O, Q, W) ==
    \E self \in D, pattern \in P, qa \in BOOLEAN, q \in Q, w \in W :
      \E o \in Asked(self, O) :
        LET r == get_latest_version(self, pattern, qa, connections, disabled, catalog,
                                    sidecar, materialized, o, q, w)
        IN  \* the outcome of the write is drawn only when there is a write
            /\ r.refreshed \/ w = "ok"
            /\ connections' = r.conns
            /\ sidecar' = r.sidecar
            /\ result' = Result("get_latest_version", self,
                                [pattern |-> pattern, qa |-> qa, o |-> o, q |-> q, w |-> w,
                                 refreshed |-> r.refreshed, wrote |-> r.wrote], r)
            /\ calls' = r.calls
            /\ UNCHANGED <<threads, disabled, materialized, catalog, writing>>

\* the answers to draw for the catalog queries of a refresh of self that is
\* handed sg_version_data and connects with the outcomes o: none when it asks
\* nothing, and a Core descriptor asks for no bundle
AskedQueries(self, sg_version_data, o, Q) ==
    IF Truthy(sg_version_data)
       \/ ~create_sg_play_store_connection(self, connections, disabled, o).ok THEN {"ok"}
    ELSE IF self.kind = "core" THEN Q \ {"bundle_fault"}
    ELSE Q

\* the outcomes to draw for the write of a refresh: none when the queries
\* failed and it writes nothing
AskedWrites(q, W) == IF q = "ok" THEN W ELSE {"ok"}

\* a caller refreshes the metadata of the cache path of self, handing over
\* the records sg_bundle_data and sg_version_data (None: not supplied)
Refresh(D, B, V, O, Q, W) ==
    \E self \in D, sg_bundle_data \in B, sg_version_data \in V :
      \E o \in IF Truthy(sg_version_data) THEN {ConnUp} ELSE Asked(self, O) :
        \E q \in AskedQueries(self, sg_version_data, o, Q) :
          \E w \in AskedWrites(q, W) :
            LET r == refresh_metadata(self, get_bundle_cache_path(self), sg_bundle_data,
                                      sg_version_data, connections, disabled, catalog,
                                      sidecar, materialized, o, q, w)
            IN  /\ connections' = r.conns
                /\ sidecar' = r.sidecar
                /\ result' = Result("refresh", self,
                                    [b |-> sg_bundle_data, v |-> sg_version_data, o |-> o,
                                     q |-> q, w |-> w, wrote |-> r.wrote], r)
                /\ calls' = r.calls
                /\ UNCHANGED <<threads, disabled, materialized, catalog, writing>>

\* a caller loads the metadata of a cache path
Load(PS) ==
    \E path \in PS :
        /\ result' = Result("load", None, [path |-> path],
                            load_cached_play_store_metadata(sidecar, path))
        /\ calls' = <<>>
        /\ UNCHANGED <<threads, connections, disabled, materialized, sidecar, catalog, writing>>

\* the descriptors whose bundle is in the local cache: ensure_local of the
\* base class (playstore.py:421, 449) finds it there and does nothing
LocalDescriptors(D) == {d \in D : get_bundle_cache_path(d) \in materialized}

GetDeprecationStatus(D) ==
    \E self \in LocalDescriptors(D) :
        /\ result' = Result("get_deprecation_status", self, NoArgs,
                            get_deprecation_status(self, sidecar, materialized))
        /\ calls' = <<>>
        /\ UNCHANGED <<threads, connections, disabled, materialized, sidecar, catalog, writing>>

GetChangelog(D) ==
    \E self \in LocalDescriptors(D) :
        /\ result' = Result("get_changelog", self, NoArgs,
                            get_changelog(self, sidecar, materialized))
        /\ calls' = <<>>
        /\ UNCHANGED <<threads, connections, disabled, materialized, sidecar, catalog, writing>>

\* GetLatestCachedVersion connecting to the catalog before it scans the
\* cache, the way get_latest_version does (playstore.py:610)
GetLatestCachedVersionConnecting(D, P) ==
    \E self \in D, pattern \in P :
        LET c == create_sg_play_store_connection(self, connections, disabled, ConnUp)
        IN  /\ connections' = c.conns
            /\ result' = Result("get_latest_cached_version", self, [pattern |-> pattern],
                                IF c.ok
                                THEN get_latest_cached_version(self, pattern, sidecar,
                                                               materialized)
                                ELSE [ok |-> FALSE, err |-> c.err, value |-> None])
            /\ calls' = c.calls
            /\ UNCHANGED <<threads, disabled, materialized, sidecar, catalog, writing>>

GetLatestCachedVersion(D, P) ==
    \E self \in D, pattern \in P :
        /\ result' = Result("get_latest_cached_version", self, [pattern |-> pattern],
                            get_latest_cached_version(self, pattern, sidecar, materialized))
        /\ calls' = <<>>
        /\ UNCHANGED <<threads, connections, disabled, materialized, sidecar, catalog, writing>>

\* a caller downloads the bundle of self, which is not in the cache, to its
\* cache path; the answers are drawn for the calls that are made
DownloadLocal(D, O, Q, W, A, X) ==
    \E self \in D \ LocalDescriptors(D), a \in A, d \in X :
      \E o \in Asked(self, O) :
        \E q \in AskedQueries(self, None, o, Q) :
          \E w \in AskedWrites(q, W) :
            LET r == download_local(self, get_bundle_cache_path(self), connections,
                                    disabled, catalog, sidecar, materialized, o, q, w, a, d)
            IN  /\ r.fetched \/ (a = "uploaded" /\ w = "ok")
                /\ r.attempted \/ d = "ok"
                /\ connections' = r.conns
                /\ sidecar' = r.sidecar
                /\ materialized' = r.materialized
                /\ result' = Result("download_local", self,
                                    [o |-> o, q |-> q, w |-> w, a |-> a, d |-> d], r)
                /\ calls' = r.calls
                /\ UNCHANGED <<threads, disabled, catalog, writing>>

\* the base class has downloaded the bundle of self to its cache path and
\* runs _post_download; the answers of the catalog are drawn for the calls
\* that are made
PostDownload(D, O, Q, W, E) ==
    \E self \in LocalDescriptors(D), e \in E :
      \E o \in Asked(self, O) :
        \E q \in AskedQueries(self, None, o, Q) :
          \E w \in AskedWrites(q, W) :
            LET r == post_download(self, get_bundle_cache_path(self), connections,
                                   disabled, catalog, sidecar, materialized, o, q, w, e)
            IN  /\ e = "ok" \/ "create_event" \in Elements(r.calls)
                /\ connections' = r.conns
                /\ sidecar' = r.sidecar
                /\ result' = Result("post_download", self,
                                    [o |-> o, q |-> q, w |-> w, e |-> e], r)
                /\ calls' = r.calls
                /\ UNCHANGED <<threads, disabled, materialized, catalog, writing>>

\* the metadata another process refreshing path writes: the records of the
\* same catalog
WriterMetadata(path) ==
    Metadata(IF path.kind = "core" THEN None ELSE catalog.bundle,
             FindOneVersion(catalog, path.kind, path.version))

\* another process refreshing the same cached version opens the side-car
\* for writing (playstore.py:347): the file is there and empty
WriterOpen ==
    \E path \in materialized :
        /\ writing = {}
        /\ ~IsNone(WriterMetadata(path).sg_version_data)
        /\ writing' = {path}
        /\ sidecar' = [sidecar EXCEPT ![path] = Torn]
        /\ result' = Result("writer_open", None, [path |-> path],
                            [ok |-> TRUE, err |-> None, value |-> None])
        /\ calls' = <<>>
        /\ UNCHANGED <<threads, connections, disabled, materialized, catalog>>

\* the other process has written the metadata and closes the file
\* (playstore.py:349-352)
WriterClose ==
    \E path \in writing :
        /\ writing' = {}
        /\ sidecar' = [sidecar EXCEPT ![path] = WriterMetadata(path)]
        /\ result' = Result("writer_close", None, [path |-> path],
                            [ok |-> TRUE, err |-> None, value |-> None])
        /\ calls' = <<>>
        /\ UNCHANGED <<threads, connections, disabled, materialized, catalog>>

\* what a step of a thread leaves alone, and what its caller observes
ThreadStep(op, t) ==
    /\ result' = Result(op, None, [thread |-> t],
                        [ok |-> threads'[t].pc # "failed", err |-> None,
                         value |-> threads'[t].value])
    /\ calls' = <<>>
    /\ UNCHANGED <<disabled, materialized, sidecar, catalog, writing>>

\* tank_playstore.py:83-89: a thread calls _create_sg_play_store_connection
\* of a Tank descriptor of site s and tests the flag
ThreadCall(S) ==
    \E t \in Threads, s \in S :
        /\ threads[t].pc = "idle"
        /\ threads' = [threads EXCEPT ![t] = [@ EXCEPT !.site = s,
                                                !.pc = IF disabled THEN "failed"
                                                       ELSE "test"]]
        /\ UNCHANGED connections
        /\ ThreadStep("thread_call", t)

\* tank_playstore.py:93: if sg_url not in self._play_store_connections
ThreadTest ==
    \E t \in Threads :
        /\ threads[t].pc = "test"
        /\ threads' = [threads EXCEPT ![t].pc = IF IsNone(connections[threads[t].site])
                                                THEN "establish" ELSE "return"]
        /\ UNCHANGED connections
        /\ ThreadStep("thread_test", t)

\* the client a thread creates: one object for each attempt
ThreadClient(t) == t

\* tank_playstore.py:97-170: the credentials, the client and the identity,
\* with the answers o; nothing shared is read or written
ThreadEstablish(O) ==
    \E t \in Threads, o \in O :
        /\ threads[t].pc = "establish"
        /\ threads' = [threads EXCEPT ![t] =
                          IF FetchCredentials(o).ok /\ IdentityLookup(o).ok
                          THEN [@ EXCEPT !.pc = "store",
                                         !.pair = Connection(ThreadClient(t))]
                          ELSE [@ EXCEPT !.pc = "failed"]]
        /\ UNCHANGED connections
        /\ ThreadStep("thread_establish", t)

\* the number of writes of the map made so far
Stores == Cardinality({u \in Threads : threads[u].stored > 0})

\* ThreadStore keeping the entry another thread has stored meanwhile
\* (setdefault): the first writer wins
ThreadStoreIfAbsent ==
    \E t \in Threads :
        /\ threads[t].pc = "store"
        /\ connections' = IF IsNone(connections[threads[t].site])
                          THEN [connections EXCEPT ![threads[t].site] = threads[t].pair]
                          ELSE connections
        /\ threads' = [threads EXCEPT ![t] = [@ EXCEPT !.pc = "return",
                                                       !.stored = Stores + 1]]
        /\ ThreadStep("thread_store", t)

\* tank_playstore.py:172: self._play_store_connections[sg_url] = (...)
ThreadStore ==
    \E t \in Threads :
        /\ threads[t].pc = "store"
        /\ connections' = [connections EXCEPT ![threads[t].site] = threads[t].pair]
        /\ threads' = [threads EXCEPT ![t] = [@ EXCEPT !.pc = "return",
                                                       !.stored = Stores + 1]]
        /\ ThreadStep("thread_store", t)

\* tank_playstore.py:174: return self._play_store_connections[sg_url]
ThreadReturn ==
    \E t \in Threads :
        /\ threads[t].pc = "return"
        /\ threads' = [threads EXCEPT ![t] = [@ EXCEPT !.pc = "done",
                                                       !.value = connections[threads[t].site]]]
        /\ UNCHANGED connections
        /\ ThreadStep("thread_return", t)

\* the descriptors that differ in what a connection depends on
ConnDescriptors ==
    {d \in Descriptors : d.kind = "app" /\ d.version = VersionPool[1] /\ IsNone(d.label)}

ConnectAny == Connect(ConnDescriptors, ConnOutcomes)
HasRemoteAccessAny == HasRemoteAccess(ConnDescriptors, ConnOutcomes)
GetLatestVersionUp ==
    GetLatestVersion({d \in Descriptors : d.version = VersionPool[1] /\ d.site = "siteA"},
                     {None}, {ConnUp}, {"ok"}, WriteOutcomes)

\* the descriptors of one site
SiteADescriptors == {d \in Descriptors : d.site = "siteA"}

\* descriptors that differ in what a scan of the cache depends on
ScanDescriptors == {d \in SiteADescriptors : d.version = VersionPool[1]}

GetLatestCachedVersionAny ==
    GetLatestCachedVersion(ScanDescriptors, {None, Str(<<1, Wild, Wild>>), Str(<<9, Wild, Wild>>)})

Init == InitWith({InventoryBoth}, {CatalogFixture})

\* Spec: the connection and its cache, with the operations that connect and
\* the scan of the local cache, which does not
Next ==
    \/ SetDisabled
    \/ ConnectAny
    \/ HasRemoteAccessAny
    \/ GetLatestVersionUp
    \/ GetLatestCachedVersionAny

Spec == Init /\ [][Next]_vars

\* the records a caller of refresh hands over
SuppliedBundles == {None, CatalogFixture.bundle}
SuppliedVersions == {None, CatalogFixture.versions[1]}

\* the descriptors a caller refreshes: no label takes part in a refresh
RefreshDescriptors ==
    {d \in SiteADescriptors :
        /\ IsNone(d.label)
        /\ d.cls = "Tank"
        /\ \/ d.version = VersionPool[1]
           \/ d.kind = "app" /\ d.version = VersionPool[MaxVersions]}

RefreshAny ==
    Refresh(RefreshDescriptors, SuppliedBundles, SuppliedVersions,
            {ConnUp, [ConnUp EXCEPT !.fetch1 = "url_error"]}, QueryOutcomes, WriteOutcomes)
AppPaths == {p \in Paths : p.kind = "app"}
LoadAny == Load(AppPaths)
GetDeprecationStatusAny == GetDeprecationStatus(RefreshDescriptors)
GetChangelogAny == GetChangelog(RefreshDescriptors)
GetLatestCachedVersionApp ==
    GetLatestCachedVersion({d \in ScanDescriptors : d.kind = "app"},
                           {None, Str(<<1, Wild, Wild>>)})
GetLatestVersionWriting ==
    GetLatestVersion({d \in ScanDescriptors : d.cls = "Tank" /\ d.kind = "app"},
                     {None, Str(<<1, Wild, Wild>>)}, {ConnUp}, {"ok"}, WriteOutcomes)

InitMeta == InitWith({InventoryBoth, InventoryApp}, {CatalogFixture})

\* SpecMeta: the side-car metadata cache of one process, with the
\* operations that write it and those that read it
NextMeta ==
    \/ RefreshAny
    \/ LoadAny
    \/ GetDeprecationStatusAny
    \/ GetChangelogAny
    \/ GetLatestCachedVersionApp
    \/ GetLatestVersionWriting

SpecMeta == InitMeta /\ [][NextMeta]_vars

\* SpecWriters: SpecMeta with another process that refreshes the same
\* cached versions
RefreshSupplied ==
    Refresh(RefreshDescriptors, {CatalogFixture.bundle}, {CatalogFixture.versions[1]},
            {ConnUp}, {"ok"}, {"ok"})

NextWriters ==
    \/ RefreshSupplied
    \/ LoadAny
    \/ GetDeprecationStatusAny
    \/ GetChangelogAny
    \/ GetLatestCachedVersionApp
    \/ WriterOpen
    \/ WriterClose

SpecWriters == InitMeta /\ [][NextWriters]_vars

\* a caller refreshes without handing any record over
RefreshFetching ==
    Refresh(RefreshDescriptors, {None}, {None}, {ConnUp}, {"ok"}, {"ok", "dump_fails"})

\* a caller hands the records of an app over: a side-car can hold records the
\* catalog has no more
RefreshHanded ==
    Refresh({d \in RefreshDescriptors : d.kind = "app"},
            {CatalogFixture.bundle, BundleRec("ok")}, {CatalogFixture.versions[1]},
            {ConnUp}, {"ok"}, {"ok", "dump_fails"})

KnownPaths == {get_bundle_cache_path(d) : d \in RefreshDescriptors}
LoadKnown == Load(KnownPaths)

InitAbsent ==
    InitWith({InventoryApp \cup InventoryCore},
             {CatalogFixture, CatalogNoBundle, CatalogNoVersion})

\* SpecAbsent: refreshes and readers with catalogs that lack the bundle
\* record or a version record, and side-cars that are not there
NextAbsent ==
    \/ RefreshFetching
    \/ RefreshHanded
    \/ LoadKnown
    \/ GetDeprecationStatusAny
    \/ GetChangelogAny

SpecAbsent == InitAbsent /\ [][NextAbsent]_vars

\* catalogs for the resolution.  The versions are created in the order of
\* VersionPool or in the opposite order; at most one of them, flagged, has
\* the status "rev" or "bad"; the version tagged has the tag "8.*" and the
\* others "9.*", or all have "8.*" (tagged = 0), or none has.
CreatedAt(order, i) == IF order = "pool" THEN i ELSE MaxVersions + 1 - i

ResolveRecords(order, flagged, status, tagged) ==
    [i \in 1..MaxVersions |->
        VersionRec(VersionPool[CreatedAt(order, i)],
                   IF CreatedAt(order, i) = flagged THEN status ELSE "ok",
                   IF tagged = 0 \/ CreatedAt(order, i) = tagged THEN TagList(<<Tag8x>>)
                   ELSE TagList(<<Tag9x>>))]

CatalogOf(records) == [bundle |-> BundleRec("ok"), versions |-> records, core |-> records]

\* the catalog of an artifact without a version
CatalogEmpty == CatalogOf(<<>>)

ResolveCatalogs ==
    {CatalogEmpty} \cup
    {CatalogOf(ResolveRecords(order, flagged, status, tagged)) :
        order \in {"pool", "opposite"}, flagged \in 0..MaxVersions,
        status \in {"rev", "bad"}, tagged \in 0..(MaxVersions + 1)}

\* the first version of the app is in the cache under the disk name of the
\* base class, the newest under the disk name of the deployment
InventoryResolve ==
    {[disk |-> "play_store", kind |-> "app", version |-> VersionPool[1]],
     [disk |-> "app_store", kind |-> "app", version |-> VersionPool[MaxVersions]]}

ResolveDescriptors ==
    {d \in ScanDescriptors : d.cls = "Tank" /\ (d.kind = "app" \/ IsNone(d.label))}

GetLatestVersionAny ==
    GetLatestVersion(ResolveDescriptors,
                     {None, Str(<<1, Wild, Wild>>), Str(<<1, 9, Wild>>), Str(<<9, Wild, Wild>>),
                      Str(VersionPool[1])},
                     {ConnUp}, {"ok"}, {"ok", "dump_fails"})

InitResolve == InitWith({InventoryResolve}, ResolveCatalogs)

\* SpecResolve: get_latest_version against catalogs of every creation
\* order, status and tagging
NextResolve == GetLatestVersionAny

SpecResolve == InitResolve /\ [][NextResolve]_vars

\* the bundle caches of the deployment with some of the versions of the app
ScanInventories ==
    {{[disk |-> "app_store", kind |-> "app", version |-> v] : v \in S} : S \in SUBSET Versions}

\* the descriptors of the app in the deployment, one per version
AppDescriptors ==
    {d \in SiteADescriptors : d.cls = "Tank" /\ d.kind = "app" /\ IsNone(d.label)}

\* a refresh looks the records of a version up and caches them
RefreshApp == Refresh(AppDescriptors, {None}, {None}, {ConnUp}, {"ok"}, {"ok"})

GetLatestCachedVersionScan ==
    GetLatestCachedVersion({d \in ScanDescriptors : d.cls = "Tank" /\ d.kind = "app"},
                           {None, Str(<<1, Wild, Wild>>), Str(<<1, 9, Wild>>),
                            Str(<<9, Wild, Wild>>), Str(VersionPool[1])})

InitScan == InitWith(ScanInventories, {CatalogFixture})

\* SpecScan: get_latest_cached_version over every inventory of the app,
\* with and without cached metadata
NextScan == RefreshApp \/ GetLatestCachedVersionScan

SpecScan == InitScan /\ [][NextScan]_vars

\* labels and tags for the label matcher
Label91 == <<"9", ".", "1">>
MatchLabels == {None, Str(Label82), Str(Label91), Str(<<>>)}
TagPool == {Tag8x, Tag9x, Label82, <<"*">>, <<"8", ".", "?">>, <<"8">>}
TagLists == {None} \cup {TagList(ts) : ts \in UNION {[1..n -> TagPool] : n \in 0..MaxTags}}

MatchDescriptors ==
    {[cls |-> "Tank", site |-> "siteA", kind |-> "app", version |-> VersionPool[1],
      label |-> l] : l \in MatchLabels}

\* a caller asks whether a tag list matches the label of self
MatchLabel ==
    \E self \in MatchDescriptors, tag_list \in TagLists :
        /\ result' = Result("match_label", self, [tag_list |-> tag_list],
                            [ok |-> TRUE, err |-> None,
                             value |-> match_label(self, tag_list)])
        /\ calls' = <<>>
        /\ UNCHANGED <<threads, connections, disabled, materialized, sidecar, catalog, writing>>

\* SpecMatch: the label matcher on every label and tag list
InitMatch == InitWith({InventoryApp}, {CatalogFixture})

NextMatch == MatchLabel

SpecMatch == InitMatch /\ [][NextMatch]_vars

\* SpecDownload: the usage event after a download, with a catalog that may
\* hold no record of the bundle or of the version
DownloadDescriptors ==
    {d \in Descriptors : d.site = "siteA" /\ IsNone(d.label)}

PostDownloadAny ==
    PostDownload(DownloadDescriptors, ConnBrief, QueryOutcomes, {"ok", "dump_fails"},
                 EventOutcomes)

LoadDownloaded == Load({p \in Paths : p.version = VersionPool[1]})

InitDownload ==
    InitWith({InventoryApp \cup InventoryCore \cup InventoryBoth},
             {CatalogFixture, CatalogNoBundle, CatalogNoVersion})

NextDownload ==
    \/ SetDisabled
    \/ PostDownloadAny
    \/ LoadDownloaded

SpecDownload == InitDownload /\ [][NextDownload]_vars

\* SpecErrors: the failures of a resolution: the flag, a catalog that does
\* not answer or rejects the identity, a catalog without the bundle, a
\* label or a pattern that nothing matches
ErrorDescriptors ==
    {d \in Descriptors :
        d.cls = "Tank" /\ d.kind = "app" /\ d.version = VersionPool[1]}

ErrorOutcomes ==
    {ConnUp, [ConnUp EXCEPT !.lookup = "transport"], [ConnUp EXCEPT !.lookup = "auth_fault"]}

GetLatestVersionFailing ==
    GetLatestVersion(ErrorDescriptors, {None, Str(<<9, Wild, Wild>>)}, ErrorOutcomes,
                     {"ok"}, {"ok"})

InitErrors == InitWith({InventoryApp}, {CatalogFixture, CatalogNoBundle})

NextErrors ==
    \/ SetDisabled
    \/ GetLatestVersionFailing

SpecErrors == InitErrors /\ [][NextErrors]_vars

\* SpecThreads: threads of one process ask for the connection at the same
\* time, each once; a step of a thread is one statement that reads or
\* writes the shared map, or the calls between two of them
ThreadCallAny == ThreadCall(Sites)
ThreadEstablishAny == ThreadEstablish({ConnUp, [ConnUp EXCEPT !.lookup = "transport"]})

InitThreads == InitWith({InventoryApp}, {CatalogFixture})

NextThreads ==
    \/ SetDisabled
    \/ ThreadCallAny
    \/ ThreadTest
    \/ ThreadEstablishAny
    \/ ThreadStore
    \/ ThreadReturn

SpecThreads == InitThreads /\ [][NextThreads]_vars

\* SpecQueries: the catalog queries of a resolution, any of which may fail,
\* for an app and for the core, with and without the bundle record
QueryDescriptors ==
    {d \in Descriptors : d.cls = "Tank" /\ d.site = "siteA" /\ d.version = VersionPool[1]}

GetLatestVersionQuerying ==
    GetLatestVersion(QueryDescriptors, {None, Str(<<1, Wild, Wild>>)}, ConnBrief,
                     QueryOutcomes, {"ok"})

InitQueries ==
    InitWith({InventoryApp \cup InventoryCore}, {CatalogFixture, CatalogNoBundle})

NextQueries ==
    \/ SetDisabled
    \/ GetLatestVersionQuerying

SpecQueries == InitQueries /\ [][NextQueries]_vars

\* SpecTags: catalogs whose version records have a list of tags or a null
\* tags field
TagFields == {TagList(<<Tag8x>>), TagList(<<>>), None}

TagCatalogs ==
    {CatalogOf([i \in 1..MaxVersions |-> VersionRec(VersionPool[i], "ok", tags[i])]) :
        tags \in [1..MaxVersions -> TagFields]}

GetLatestVersionTags ==
    GetLatestVersion(ResolveDescriptors, {None, Str(<<1, Wild, Wild>>)}, {ConnUp}, {"ok"},
                     {"ok"})

InitTags == InitWith({InventoryResolve}, TagCatalogs)

NextTags ==
    \/ SetDisabled
    \/ GetLatestVersionTags

SpecTags == InitTags /\ [][NextTags]_vars

\* SpecPayload: the download of a bundle that is not in the cache, and the
\* usage event after it
PayloadDescriptors == {d \in DownloadDescriptors : d.version = VersionPool[1]}

DownloadLocalAny ==
    DownloadLocal(PayloadDescriptors, ConnBrief, QueryOutcomes, {"ok", "dump_fails"},
                  PayloadFields, DownloadOutcomes)

InitPayload ==
    InitWith({{}, InventoryCore}, {CatalogFixture, CatalogNoBundle, CatalogNoVersion})

NextPayload ==
    \/ SetDisabled
    \/ DownloadLocalAny
    \/ PostDownloadAny

SpecPayload == InitPayload /\ [][NextPayload]_vars

(***************************************************************************)
(* Properties                                                              *)
(***************************************************************************)

\* how often call c appears in a list of calls
RECURSIVE Count(_, _)
Count(cs, c) ==
    IF cs = <<>> THEN 0 ELSE (IF Head(cs) = c THEN 1 ELSE 0) + Count(Tail(cs), c)

\* the operations whose caller is handed the error of the connection
ConnectingOps == {"connect", "get_latest_version"}

\* whether the answers o let an attempt that asks for them establish a connection
Establishes(o) ==
    /\ o.lookup = "user"
    /\ \/ o.fetch1 = "ok"
       \/ o.fetch1 = "http403" /\ o.refresh = "ok" /\ o.fetch2 = "ok"

\* C1: has_remote_access never lets an error out; it returns true exactly
\* when the connection attempt returned a connection (the deployment class,
\* the flag not set, and the site's connection cached or established with
\* the answers of this call), and then the cache holds that connection; for
\* every other outcome it returns false.
C1_ProbeNeverRaises ==
    [][result'.op = "has_remote_access" =>
        /\ result'.ok
        /\ result'.value =
              (/\ result'.self.cls = "Tank"
               /\ ~disabled
               /\ (~IsNone(connections[result'.self.site]) \/ Establishes(result'.args.o)))
        /\ (result'.value => ~IsNone(connections'[result'.self.site]))]_vars

\* C1 witness: a probe that asked the catalog, was refused and returned false
C1_Witness ==
    /\ result.op = "has_remote_access"
    /\ result.ok /\ ~result.value
    /\ result.args.o.lookup = "auth_fault"
    /\ calls = <<"fetch_credentials", "identity_lookup">>

C3_OneRetryAfter403 ==
    /\ Count(calls, "fetch_credentials") <= 2
    /\ Count(calls, "session_refresh") <= 1
    /\ Count(calls, "session_refresh") + Count(calls, "fetch_credentials") > 1 =>
          /\ result.args.o.fetch1 = "http403"
          /\ SubSeq(calls, 1, 2) = <<"fetch_credentials", "session_refresh">>
    /\ Count(calls, "fetch_credentials") = 2 =>
          /\ SubSeq(calls, 1, 3) = <<"fetch_credentials", "session_refresh", "fetch_credentials">>
          /\ result.args.o.refresh = "ok"
          /\ (result.args.o.fetch2 # "ok" /\ result.op \in ConnectingOps) =>
                /\ ~result.ok
                /\ result.err = FetchError(result.args.o.fetch2)
                /\ Len(calls) = 3
    /\ (/\ result.op \in ConnectingOps
        /\ calls # <<>>
        /\ result.args.o.fetch1 \notin {"ok", "http403"}) =>
          /\ ~result.ok
          /\ result.err = FetchError(result.args.o.fetch1)
          /\ calls = <<"fetch_credentials">>

\* C3 witness: the retry was made and failed with 403 again
C3_Witness ==
    /\ result.op = "connect"
    /\ calls = <<"fetch_credentials", "session_refresh", "fetch_credentials">>
    /\ ~result.ok
    /\ result.err = Err("HTTPError", "403")

\* C4: with the disable-remote-access flag set, every connection attempt of
\* a descriptor of the deployment fails with the configuration error
\* without a call to the site or the catalog, also when the site's
\* connection is cached; the cache and the side-cars stay as they were, and
\* get_latest_version fails the same way without a catalog query.
C4_DisabledFailsFast ==
    [][(disabled /\ result'.self # None /\ result'.self.cls = "Tank"
           /\ result'.op \in ConnectingOps \cup {"has_remote_access"}) =>
        /\ calls' = <<>>
        /\ connections' = connections
        /\ sidecar' = sidecar
        /\ result'.op \in ConnectingOps =>
              /\ ~result'.ok
              /\ result'.err = Err("TankAppStoreConnectionError", "disabled")
        /\ result'.op = "has_remote_access" => (result'.ok /\ ~result'.value)]_vars

\* C4 witness: get_latest_version refused by the flag while the site's
\* connection is in the cache
C4_Witness ==
    /\ disabled
    /\ result.op = "get_latest_version"
    /\ ~IsNone(connections[result.self.site])
    /\ ~result.ok
    /\ result.err.msg = "disabled"

\* C5: get_latest_cached_version makes no connection attempt, no credentials
\* fetch and no catalog call and leaves the connection cache and the
\* side-cars as they were, whatever the flag and the cache of connections
\* are; what it gives the caller is what the scan of the inventory and the
\* side-car files gives.
C5_CachedScanIsLocal ==
    [][result'.op = "get_latest_cached_version" =>
        /\ calls' = <<>>
        /\ connections' = connections
        /\ sidecar' = sidecar
        /\ materialized' = materialized
        /\ LET scan == get_latest_cached_version(result'.self, result'.args.pattern,
                                                 sidecar, materialized)
           IN  /\ result'.ok = scan.ok
               /\ result'.value = scan.value]_vars

\* C5 witness: a scan that found a version with the flag set and no
\* connection of the site in the cache
C5_Witness ==
    /\ result.op = "get_latest_cached_version"
    /\ disabled
    /\ IsNone(connections[result.self.site])
    /\ result.ok
    /\ ~IsNone(result.value)

\* C6 as stated: get_latest_cached_version of a descriptor with a label
\* does not fail whatever the side-cars of the cached versions hold, and the
\* version it returns has a side-car with a tag that matches the label.
C6_LabelScanNeverFails ==
    (result.op = "get_latest_cached_version" /\ ~IsNone(result.self.label)) =>
        /\ result.ok
        /\ ~IsNone(result.value) =>
              LabelSurvives(result.self,
                            load_cached_play_store_metadata(
                                sidecar, CachedPath(result.self, result.value.version)))

\* the side-car a reader read
ReadPath == IF result.op = "load" THEN result.args.path ELSE get_bundle_cache_path(result.self)

Readers == {"load", "get_deprecation_status", "get_changelog"}

\* C7 as stated: a reader of a side-car that another process has opened for
\* writing and not finished does not fail its caller.
C7_ReadersSurviveWriter ==
    (result.op \in Readers /\ ReadPath \in writing) => result.ok

\* C8 as stated: whatever the writes of the refreshes did, a refresh that is
\* handed its data does not raise, and a load returns the empty record or
\* the metadata a refresh wrote completely.
C8_LoadAfterFailedWrites ==
    /\ (result.op = "refresh" /\ Truthy(result.args.v)) => result.ok
    /\ result.op = "load" => (result.ok /\ result.value.k \in {"dict", "meta"})

\* whether the descriptor self gets a connection with the answers o
ConnectionSucceeds(self, o) ==
    /\ self.cls = "Tank"
    /\ ~disabled
    /\ (~IsNone(connections[self.site]) \/ Establishes(o))

\* the metadata a refresh of self returns when it is not handed any
FetchedMetadata(self) ==
    Metadata(IF self.kind = "core" THEN None ELSE catalog.bundle,
             FindOneVersion(catalog, self.kind, self.version))

\* C9: a refresh that is handed version data, or whose connection and
\* lookups succeed, returns the metadata made of the records it was handed
\* or found, whatever the write did; get_latest_version gives its caller
\* what the same call with a write that succeeds gives, and a reference
\* whenever it came to the eager refresh.
C9_WriteFailureIsSwallowed ==
    [][/\ result'.op = "refresh" =>
            /\ Truthy(result'.args.v) =>
                  /\ result'.ok
                  /\ result'.value = Metadata(result'.args.b, result'.args.v)
            /\ (/\ ~Truthy(result'.args.v)
                /\ ConnectionSucceeds(result'.self, result'.args.o)
                /\ result'.args.q = "ok") =>
                  /\ result'.ok
                  /\ result'.value = FetchedMetadata(result'.self)
       /\ result'.op = "get_latest_version" =>
            LET a == result'.args
                written == get_latest_version(result'.self, a.pattern, a.qa, connections,
                                              disabled, catalog, sidecar, materialized,
                                              a.o, a.q, "ok")
            IN  /\ result'.ok = written.ok
                /\ result'.value = written.value
                /\ result'.err = written.err
                /\ a.refreshed => (result'.ok /\ ~IsNone(result'.value))]_vars

\* C9 witness: get_latest_version returned the reference although the write
\* of its eager refresh failed after the file was opened
C9_Witness ==
    /\ result.op = "get_latest_version"
    /\ result.args.refreshed
    /\ result.args.w = "dump_fails"
    /\ ~result.args.wrote
    /\ result.ok
    /\ sidecar[get_bundle_cache_path(result.value)] = Torn

\* the catalog lookups among the calls of an operation
Lookups(cs) == SelectSeq(cs, LAMBDA c : c \in {"find_one_bundle", "find_one_version"})

\* the lookups of a refresh of self that asks the catalog
ExpectedLookups(self) ==
    IF self.kind = "core" THEN <<"find_one_version">>
    ELSE <<"find_one_bundle", "find_one_version">>

IsPrefix(s, t) == Len(s) <= Len(t) /\ s = SubSeq(t, 1, Len(s))

\* whether a refresh of self was handed all the records there are for it:
\* Core has no bundle record
BothSupplied(self, sg_bundle_data, sg_version_data) ==
    ~IsNone(sg_version_data) /\ (self.kind = "core" \/ ~IsNone(sg_bundle_data))

\* C10 as stated: a refresh makes no lookup when it is handed both records;
\* handed none or one of them, a refresh that returns has made one bundle
\* lookup and then one version lookup, or the version lookup alone for Core.
C10_LookupsWhenBothSupplied ==
    result.op = "refresh" =>
        /\ BothSupplied(result.self, result.args.b, result.args.v) => Lookups(calls) = <<>>
        /\ (~BothSupplied(result.self, result.args.b, result.args.v) /\ result.ok) =>
              Lookups(calls) = ExpectedLookups(result.self)

\* C10 amended: a refresh that is handed version data makes no call at all,
\* with or without bundle data; one that is not handed version data (with
\* or without bundle data) and returns has made one bundle lookup and then
\* one version lookup, or the version lookup alone for Core; one that fails
\* has made a prefix of these.
C10_LookupsByVersionData ==
    result.op = "refresh" =>
        /\ ~IsNone(result.args.v) => (calls = <<>> /\ result.ok)
        /\ (IsNone(result.args.v) /\ result.ok) =>
              Lookups(calls) = ExpectedLookups(result.self)
        /\ (IsNone(result.args.v) /\ ~result.ok) =>
              IsPrefix(Lookups(calls), ExpectedLookups(result.self))

\* C10 witness: a refresh of an app that was handed version data and no
\* bundle data returned without a call
C10_Witness ==
    /\ result.op = "refresh"
    /\ result.self.kind = "app"
    /\ IsNone(result.args.b)
    /\ ~IsNone(result.args.v)
    /\ result.ok
    /\ result.value = Metadata(None, result.args.v)
    /\ calls = <<>>

\* the error _refresh_metadata raises when a record is not in the catalog
NotInCatalog(e) ==
    e.type = "TankDescriptorError" /\ e.msg \in {"no such item", "no such version"}

\* C11: a refresh that is handed no version data and connects fails with
\* the descriptor error when the bundle record of a kind other than Core is
\* not in the catalog, then having asked for the bundle and never for the
\* version, and when the version record is not in the catalog; every
\* refresh that fails this way leaves every side-car as it was.
C11_AbsentRecordFailsCleanly ==
    [][(/\ result'.op = "refresh"
        /\ ~Truthy(result'.args.v)
        /\ ConnectionSucceeds(result'.self, result'.args.o)
        /\ result'.args.q = "ok") =>
        /\ (result'.self.kind # "core" /\ IsNone(catalog.bundle)) =>
              /\ ~result'.ok
              /\ result'.err = Err("TankDescriptorError", "no such item")
              /\ Lookups(calls') = <<"find_one_bundle">>
        /\ (/\ result'.self.kind = "core" \/ ~IsNone(catalog.bundle)
            /\ IsNone(FindOneVersion(catalog, result'.self.kind, result'.self.version))) =>
              /\ ~result'.ok
              /\ result'.err = Err("TankDescriptorError", "no such version")
              /\ Lookups(calls') = ExpectedLookups(result'.self)
        /\ (~result'.ok /\ NotInCatalog(result'.err)) => sidecar' = sidecar
        /\ (/\ result'.self.kind = "core" \/ ~IsNone(catalog.bundle)
            /\ ~IsNone(FindOneVersion(catalog, result'.self.kind, result'.self.version))) =>
              result'.ok]_vars

\* C11 witness: a refresh failed for want of the bundle record and the
\* side-car of its path still holds the records written before
C11_Witness ==
    /\ result.op = "refresh"
    /\ ~result.ok
    /\ result.err.msg = "no such item"
    /\ calls = <<"fetch_credentials", "identity_lookup", "find_one_bundle">>
    /\ sidecar[get_bundle_cache_path(result.self)].k = "meta"

\* whether the side-car at path holds a bundle record flagged deprecated
CachedDeprecated(path) ==
    /\ sidecar[path].k = "meta"
    /\ sidecar[path].sg_bundle_data.k = "bundle"
    /\ sidecar[path].sg_bundle_data.sg_status_list = "dep"

ReturnedRecord == FindOneVersion(catalog, result.self.kind, result.value.version)

\* C13: the version get_latest_version returns is never flagged "bad", and
\* is flagged "rev" only when the call was made in QA mode.
C13_StatusFilter ==
    (result.op = "get_latest_version" /\ result.ok) =>
        /\ ~IsNone(ReturnedRecord)
        /\ ReturnedRecord.sg_status_list # "bad"
        /\ ReturnedRecord.sg_status_list = "rev" => result.args.qa

\* C13 witness: in QA mode a version under review was returned although a
\* version flagged "ok" is in the catalog too
C13_Witness ==
    /\ result.op = "get_latest_version"
    /\ result.ok
    /\ result.args.qa
    /\ ReturnedRecord.sg_status_list = "rev"
    /\ \E i \in 1..Len(catalog.versions) : catalog.versions[i].sg_status_list = "ok"

\* the version records of the catalog for the kind of the last operation, in
\* the order of their creation
CreatedRecords == VersionsOfKind(catalog, result.self.kind)

\* whether the i-th created record passes the status filter of the last
\* call and has a tag matching the label of its descriptor, if it has a label
Survives(i) ==
    /\ CreatedRecords[i].sg_status_list # "bad"
    /\ CreatedRecords[i].sg_status_list = "rev" => result.args.qa
    /\ \/ IsNone(result.self.label)
       \/ \E t \in 1..Len(CreatedRecords[i].tags.v) :
              Fnmatch(result.self.label.s, CreatedRecords[i].tags.v[t])

Survivors == {i \in 1..Len(CreatedRecords) : Survives(i)}

\* C14: without a constraint pattern get_latest_version returns the last
\* created of the versions that pass the status filter and, when the
\* descriptor has a label, have a tag matching it; whatever its tags when
\* there is no label.
C14_NewestCreatedSurvivor ==
    (/\ result.op = "get_latest_version"
     /\ ~HasPattern(result.args.pattern)
     /\ Survivors # {}) =>
        /\ result.ok
        /\ \E i \in Survivors :
              /\ \A j \in Survivors : j <= i
              /\ result.value.version = CreatedRecords[i].code

\* C14 witness: with a label and no pattern the version returned is not the
\* last created, which passes the status filter and has no matching tag
C14_Witness ==
    /\ result.op = "get_latest_version"
    /\ ~HasPattern(result.args.pattern)
    /\ ~IsNone(result.self.label)
    /\ result.ok
    /\ Len(CreatedRecords) > 1
    /\ result.value.version # CreatedRecords[Len(CreatedRecords)].code
    /\ CreatedRecords[Len(CreatedRecords)].sg_status_list = "ok"

\* the versions that pass the status filter and the label filter of the
\* last call
Candidates == {CreatedRecords[i].code : i \in Survivors}

\* whether a pattern names one version: it has no wildcard segment
IsLiteral(p) == \A i \in 1..Len(p) : p[i] # Wild

\* the candidates a constraint pattern admits
Admitted(p) ==
    IF IsLiteral(p) THEN Candidates \cap {p}
    ELSE {v \in Candidates : SatisfiesPattern(v, p)}

\* C15: with a constraint pattern get_latest_version returns a candidate
\* the pattern admits (the version itself for a literal pattern, the
\* versions whose segments before the first wildcard are those of the
\* pattern otherwise) that no other admitted candidate is newer than in
\* the version ordering, wherever it stands in the order of creation; it
\* returns one whenever the pattern admits a candidate.
C15_PatternPicksVersionMaximum ==
    (result.op = "get_latest_version" /\ HasPattern(result.args.pattern)) =>
        /\ result.ok = (Admitted(result.args.pattern.s) # {})
        /\ result.ok =>
              /\ result.value.version \in Admitted(result.args.pattern.s)
              /\ \A u \in Admitted(result.args.pattern.s) :
                    ~VersionNewer(u, result.value.version)

\* C15 witness: a wildcard pattern admits two candidates and the one
\* returned, the higher version, was created before the other
C15_Witness ==
    /\ result.op = "get_latest_version"
    /\ HasPattern(result.args.pattern)
    /\ ~IsLiteral(result.args.pattern.s)
    /\ result.ok
    /\ \E i, j \in Survivors :
          /\ i < j
          /\ CreatedRecords[i].code = result.value.version
          /\ CreatedRecords[j].code \in Admitted(result.args.pattern.s)
          /\ VersionNewer(CreatedRecords[i].code, CreatedRecords[j].code)

\* the candidates the constraint pattern of the last call admits
AdmittedByLast == Admitted(result.args.pattern.s)

\* C16: when there are candidates and the constraint pattern admits none of
\* them, get_latest_version fails with the descriptor error for a pattern
\* without a match, the error lists each candidate once and nothing else,
\* no reference is returned and every side-car is left as it was.
C16_NoMatchListsCandidates ==
    [][(/\ result'.op = "get_latest_version"
        /\ HasPattern(result'.args.pattern)
        /\ Candidates' # {}
        /\ AdmittedByLast' = {}) =>
        /\ ~result'.ok
        /\ result'.err.type = "TankDescriptorError"
        /\ result'.err.msg = "no version matching the pattern"
        /\ Elements(result'.err.considered) = Candidates'
        /\ Len(result'.err.considered) = Cardinality(Candidates')
        /\ IsNone(result'.value)
        /\ sidecar' = sidecar]_vars

\* C16 witness: a pattern that nothing matches failed with the two
\* candidates listed, while a side-car written before is on disk
C16_Witness ==
    /\ result.op = "get_latest_version"
    /\ ~result.ok
    /\ result.err.msg = "no version matching the pattern"
    /\ Len(result.err.considered) = 2
    /\ \E p \in materialized : sidecar[p].k = "meta"

\* C17: the version get_latest_version returns for a descriptor with a
\* label has a tag that matches the label; when no version of the catalog
\* passes the status filter and the label filter, and so when the catalog
\* has no version at all, it fails with the descriptor error for no
\* version found and returns no reference.
C17_LabelFilter ==
    result.op = "get_latest_version" =>
        /\ (result.ok /\ ~IsNone(result.self.label)) =>
              \E t \in 1..Len(ReturnedRecord.tags.v) :
                  Fnmatch(result.self.label.s, ReturnedRecord.tags.v[t])
        /\ Survivors = {} =>
              /\ ~result.ok
              /\ result.err = Err("TankDescriptorError", "cannot find any versions")
              /\ IsNone(result.value)

\* C17 witness: the catalog has versions that pass the status filter, none
\* has a tag matching the label, and the call failed
C17_Witness ==
    /\ result.op = "get_latest_version"
    /\ ~IsNone(result.self.label)
    /\ Len(CreatedRecords) > 1
    /\ \A i \in 1..Len(CreatedRecords) : CreatedRecords[i].sg_status_list = "ok"
    /\ ~result.ok
    /\ result.err.msg = "cannot find any versions"

\* the catalog queries among the calls of an operation
CatalogCalls(cs) ==
    SelectSeq(cs, LAMBDA c : c \in {"find_one_bundle", "find_one_version",
                                    "find_versions_limit_1", "find_versions_all"})

\* C18: a get_latest_version that returns a reference refreshes the
\* side-car at the cache path of that reference exactly when the path is
\* materialized; when the write succeeds the side-car holds the bundle
\* record and the record of the chosen version this call fetched,
\* otherwise it is as it was or left unreadable by the failed write; the
\* side-cars of all other paths are as they were; and the catalog was asked
\* for the bundle (not for Core) and the versions once, and nothing more.
C18_EagerRefresh ==
    [][(result'.op = "get_latest_version" /\ result'.ok) =>
        LET path == get_bundle_cache_path(result'.value)
        IN  /\ result'.args.refreshed = (path \in materialized)
            /\ result'.args.wrote = (path \in materialized /\ result'.args.w = "ok")
            /\ result'.args.wrote =>
                  sidecar'[path] =
                      Metadata(IF result'.self.kind = "core" THEN None ELSE catalog.bundle,
                               FindOneVersion(catalog, result'.self.kind,
                                              result'.value.version))
            /\ ~result'.args.wrote => sidecar'[path] \in {sidecar[path], Torn}
            /\ path \notin materialized => sidecar'[path] = sidecar[path]
            /\ \A p \in Paths \ {path} : sidecar'[p] = sidecar[p]
            /\ Len(CatalogCalls(calls')) = Len(BundleQuery(result'.self)) + 1
            /\ Count(calls', "find_one_bundle") = Len(BundleQuery(result'.self))
            /\ Count(calls', "find_one_version") = 0]_vars

\* C18 witness: the chosen version is in the cache, its side-car was
\* written with the records of the call, and the catalog was asked twice
C18_Witness ==
    /\ result.op = "get_latest_version"
    /\ result.ok
    /\ result.args.wrote
    /\ get_bundle_cache_path(result.value) \in materialized
    /\ sidecar[get_bundle_cache_path(result.value)] = Metadata(catalog.bundle, ReturnedRecord)
    /\ CatalogCalls(calls) = <<"find_one_bundle", "find_versions_all">>

\* the versions in the cache of the descriptor of the last operation
CachedVersions ==
    {p.version : p \in {x \in materialized :
                            /\ x.disk = PLAY_STORE_DISK_NAME(result.self.cls)
                            /\ x.kind = result.self.kind}}

\* whether the side-car of the cached version v has a tag matching the label
CachedTagMatches(v) ==
    LET m == sidecar[CachedPath(result.self, v)]
    IN  /\ m.k = "meta"
        /\ m.sg_version_data.k = "version"
        /\ m.sg_version_data.tags.k = "list"
        /\ \E t \in 1..Len(m.sg_version_data.tags.v) :
              Fnmatch(result.self.label.s, m.sg_version_data.tags.v[t])

\* the cached versions that remain after the label filter
CachedSurvivors ==
    {v \in CachedVersions : IsNone(result.self.label) \/ CachedTagMatches(v)}

\* the cached versions the pattern of the last call admits
ScanAdmitted ==
    IF ~HasPattern(result.args.pattern) THEN CachedSurvivors
    ELSE IF IsLiteral(result.args.pattern.s) THEN CachedSurvivors \cap {result.args.pattern.s}
    ELSE {v \in CachedSurvivors : SatisfiesPattern(v, result.args.pattern.s)}

\* u is below v when, at the first segment where they differ, the number of
\* u is the smaller
NumericallyBelow(u, v) ==
    \E i \in 1..Len(v) :
        /\ i <= Len(u)
        /\ u[i] < v[i]
        /\ \A j \in 1..(i - 1) : u[j] = v[j]

\* C19: a get_latest_cached_version that returns gives none when no version
\* is cached, when none is left by the label filter, or when the pattern
\* admits none of those left; otherwise it gives a version the pattern
\* admits, and with neither label nor pattern the cached version that every
\* other cached version is numerically below.
C19_CachedMaximum ==
    (result.op = "get_latest_cached_version" /\ result.ok) =>
        /\ IsNone(result.value) = (ScanAdmitted = {})
        /\ ~IsNone(result.value) => result.value.version \in ScanAdmitted
        /\ (/\ ~IsNone(result.value)
            /\ IsNone(result.self.label)
            /\ IsNone(result.args.pattern)) =>
              \A u \in CachedVersions \ {result.value.version} :
                  NumericallyBelow(u, result.value.version)

\* C19 witness: with v1.9.0 and v1.10.0 cached, no label and no pattern,
\* v1.10.0 was returned
C19_Witness ==
    /\ result.op = "get_latest_cached_version"
    /\ IsNone(result.self.label)
    /\ IsNone(result.args.pattern)
    /\ {<<1, 9, 0>>, <<1, 10, 0>>} \subseteq CachedVersions
    /\ result.ok
    /\ result.value.version = <<1, 10, 0>>

\* C20: the label matcher returns true for every tag list, and for none,
\* when the descriptor has no label; false when it has a label and the tag
\* list is None; otherwise true exactly when the label, as the subject,
\* matches one of the tags, as the glob pattern: "8.2" matches the tag
\* list ["8.*"], and neither ["9.*"] nor the empty list.
C20_LabelMatcher ==
    result.op = "match_label" =>
        /\ IsNone(result.self.label) => result.value
        /\ (~IsNone(result.self.label) /\ IsNone(result.args.tag_list)) => ~result.value
        /\ (~IsNone(result.self.label) /\ ~IsNone(result.args.tag_list)) =>
              result.value = (\E i \in 1..Len(result.args.tag_list.v) :
                                  Fnmatch(result.self.label.s, result.args.tag_list.v[i]))
        /\ result.self.label = Str(Label82) =>
              /\ result.args.tag_list = TagList(<<Tag8x>>) => result.value
              /\ result.args.tag_list = TagList(<<Tag9x>>) => ~result.value
              /\ result.args.tag_list = TagList(<<>>) => ~result.value

\* C20 witness: the label "8.2" matched the second tag of ["9.*", "8.*"]
C20_Witness ==
    /\ result.op = "match_label"
    /\ result.self.label = Str(Label82)
    /\ result.args.tag_list = TagList(<<Tag9x, Tag8x>>)
    /\ result.value

\* C21: _post_download never lets an error out, whatever fails in it (the
\* connection, the refresh of the metadata, a record the catalog does not
\* hold, the creation of the event); it asks for at most one usage event,
\* as its last call, and asks for it exactly when the connection and the
\* refresh of the metadata succeeded.
C21_ReceiptIsBestEffort ==
    [][result'.op = "post_download" =>
        LET self == result'.self
            a == result'.args
            m == FetchedMetadata(self)
            refreshed == /\ ConnectionSucceeds(self, a.o)
                         /\ a.q = "ok"
                         /\ ~IsNone(m.sg_version_data)
                         /\ (self.kind = "core" \/ ~IsNone(m.sg_bundle_data))
        IN  /\ result'.ok
            /\ IsNone(result'.err)
            /\ Count(calls', "create_event") <= 1
            /\ Count(calls', "create_event") = 1 <=> refreshed
            /\ refreshed => calls'[Len(calls')] = "create_event"]_vars

\* C21 witness: the catalog holds no record of the downloaded bundle; the
\* post-download step ended after the bundle lookup, created no event and
\* returned normally
C21_Witness ==
    /\ result.op = "post_download"
    /\ result.self.cls = "Tank"
    /\ IsNone(catalog.bundle)
    /\ result.ok
    /\ calls # <<>>
    /\ calls[Len(calls)] = "find_one_bundle"
    /\ Count(calls, "create_event") = 0

\* C21 second witness: the creation of the event failed and nothing was raised
C21_EventFaultWitness ==
    /\ result.op = "post_download"
    /\ result.args.e = "fault"
    /\ result.ok
    /\ Count(calls, "create_event") = 1

\* the failure kinds of a resolution
FailureKinds ==
    {"ConfigurationDisabled", "ConnectionFailure", "InvalidCredentials",
     "ArtifactNotFound", "NoMatchingVersion"}

\* the kind of the failure of the last get_latest_version, by its cause:
\* the flag, the answer of the catalog to the identity lookup, the absence
\* of the bundle record, no version left by the label or the pattern
FailureKind ==
    IF result.op # "get_latest_version" \/ result.ok \/ result.self.cls # "Tank"
    THEN "none"
    ELSE IF disabled THEN "ConfigurationDisabled"
    ELSE IF result.args.o.lookup = "transport" THEN "ConnectionFailure"
    ELSE IF result.args.o.lookup = "auth_fault" THEN "InvalidCredentials"
    ELSE IF result.args.o # ConnUp \/ result.args.q # "ok" THEN "none"
    ELSE IF result.self.kind # "core" /\ IsNone(catalog.bundle) THEN "ArtifactNotFound"
    ELSE IF Candidates = {} \/ (HasPattern(result.args.pattern) /\ AdmittedByLast = {})
    THEN "NoMatchingVersion"
    ELSE "none"

\* the errors the failures of a kind are raised with, as (class, message):
\* those of the statements of the code that raise for the kind
KindErrors(kind) ==
    LET self == [cls |-> "Tank", site |-> "siteA", kind |-> "app",
                 version |-> VersionPool[1], label |-> None]
        none == [s \in Sites |-> None]
        e(r) == <<r.err.type, r.err.msg>>
    IN  CASE kind = "ConfigurationDisabled" ->
                {e(create_sg_play_store_connection(self, none, TRUE, ConnUp))}
          [] kind = "ConnectionFailure" ->
                {e(create_sg_play_store_connection(
                       self, none, FALSE, [ConnUp EXCEPT !.lookup = "transport"]))}
          [] kind = "InvalidCredentials" ->
                {e(create_sg_play_store_connection(
                       self, none, FALSE, [ConnUp EXCEPT !.lookup = "auth_fault"]))}
          [] kind = "ArtifactNotFound" ->
                {e(get_latest_version(self, None, FALSE, none, FALSE, CatalogNoBundle,
                                      [p \in Paths |-> Absent], {}, ConnUp, "ok", "ok"))}
          [] kind = "NoMatchingVersion" ->
                {e(ChooseMatching(None, <<>>)),
                 e(ChooseByPattern(<<>>, None))}

\* the classes of the errors of a kind
KindTypes(kind) == {e[1] : e \in KindErrors(kind)}

C22_DisabledWitness ==
    /\ FailureKind = "ConfigurationDisabled"
    /\ result.err.type \in KindTypes("ConnectionFailure")

\* the calls that establish a connection
EstablishingCalls == {"fetch_credentials", "session_refresh", "identity_lookup"}

\* C23: the cache starts empty and an entry is made only by an operation
\* of a descriptor of that site that connects; an entry, once made, is
\* never removed nor replaced; while the flag is not set, every request of
\* a Tank descriptor for a site that has an entry is handed that entry and
\* makes no credentials fetch, session refresh or identity lookup.
C23_CacheIsLazyAndRetained ==
    [][/\ \A s \in Sites :
            /\ ~IsNone(connections[s]) => connections'[s] = connections[s]
            /\ connections'[s] # connections[s] =>
                  /\ result'.op \in {"connect", "has_remote_access", "get_latest_version"}
                  /\ result'.self.site = s
                  /\ EstablishingCalls \cap Elements(calls') # {}
       /\ (/\ result'.op \in {"connect", "has_remote_access", "get_latest_version"}
           /\ result'.self.cls = "Tank"
           /\ ~disabled
           /\ ~IsNone(connections[result'.self.site])) =>
              /\ EstablishingCalls \cap Elements(calls') = {}
              /\ result'.op = "connect" =>
                    (result'.ok /\ result'.value = connections[result'.self.site])
              /\ result'.op = "has_remote_access" => (result'.ok /\ result'.value = TRUE)
              /\ result'.op = "get_latest_version" =>
                    (~result'.ok => result'.err.type \notin AppStoreErrorTypes)]_vars

\* C23 witness: a request for a site whose connection was established by
\* an earlier request, after the connection of the other site, is handed
\* the cached pair without a call
C23_Witness ==
    /\ result.op = "connect"
    /\ result.ok
    /\ calls = <<>>
    /\ result.value = connections[result.self.site]
    /\ \A s \in Sites : ~IsNone(connections[s])
    /\ connections["siteA"] # connections["siteB"]

\* the threads that have written the entry of site s
Writers(s) == {t \in Threads : threads[t].site = s /\ threads[t].stored > 0}

\* the last of them
LastWriter(s) ==
    CHOOSE t \in Writers(s) : \A u \in Writers(s) : threads[u].stored <= threads[t].stored

\* C24: whatever the interleaving of the threads that ask for a connection,
\* a thread that returns is handed an established pair, which is the entry
\* of its site at that time (the pair it stored, or the pair of a thread
\* that stored after it); the map holds one entry for a site as soon as a
\* thread has stored one, and it is the pair of the last thread that
\* stored; threads are not kept from each establishing a connection of
\* their own: a thread stores whatever the map holds by then.
C24_LastWriterWins ==
    /\ \A s \in Sites :
          /\ Writers(s) = {} <=> IsNone(connections[s])
          /\ Writers(s) # {} => connections[s] = threads[LastWriter(s)].pair
    /\ \A t \in Threads :
          /\ threads[t].pc = "done" =>
                /\ threads[t].value.k = "conn"
                /\ threads[t].value.identity = "ApiUser"
                /\ \E u \in Writers(threads[t].site) : threads[t].value = threads[u].pair
                /\ threads[t].stored > 0 =>
                      \E u \in Writers(threads[t].site) :
                          /\ threads[u].stored >= threads[t].stored
                          /\ threads[t].value = threads[u].pair
          /\ threads[t].pc \in {"idle", "test", "establish", "failed"} =>
                (IsNone(threads[t].value) /\ threads[t].stored = 0)
          /\ threads[t].pc = "store" => threads[t].pair.k = "conn"

\* C24 witness: all three threads asked for the same site and have
\* finished; each established a connection of its own, one of them
\* returned the pair of another, and the map holds the pair of the last
\* that stored
C24_Witness ==
    /\ \A t \in Threads : threads[t].pc = "done" /\ threads[t].site = "siteA"
    /\ Cardinality(Writers("siteA")) = 3
    /\ Cardinality({threads[t].pair : t \in Threads}) = 3
    /\ \E t \in Threads : threads[t].value # threads[t].pair
    /\ connections["siteA"] = threads[LastWriter("siteA")].pair

\* the version queries of get_latest_version, as they appear in calls
VersionQueries == {"find_versions_limit_1", "find_versions_all"}

\* C25: a get_latest_version that gets its connection queries the catalog
\* in one order and never twice: for an app the bundle lookup, then, only
\* when that returned a record, one version query; for the core one
\* version query and no bundle lookup.  A query that fails ends the call
\* with the fault of the catalog and is not made again; an absent bundle
\* record ends it with the descriptor error before any version query; a
\* call without a connection makes no query.
C25_QueryOrder ==
    [][result'.op = "get_latest_version" =>
        LET self == result'.self
            q == result'.args.q
            cc == CatalogCalls(calls')
        IN  IF ~ConnectionSucceeds(self, result'.args.o) THEN cc = <<>> /\ ~result'.ok
            ELSE IF self.kind = "core" THEN
                /\ Len(cc) = 1 /\ cc[1] \in VersionQueries
                /\ q = "version_fault" => (~result'.ok /\ result'.err.type = "Fault")
            ELSE IF q = "bundle_fault" THEN
                cc = <<"find_one_bundle">> /\ ~result'.ok /\ result'.err.type = "Fault"
            ELSE IF IsNone(catalog.bundle) THEN
                /\ cc = <<"find_one_bundle">>
                /\ ~result'.ok
                /\ result'.err = Err("TankDescriptorError", "no such item")
            ELSE
                /\ Len(cc) = 2 /\ cc[1] = "find_one_bundle" /\ cc[2] \in VersionQueries
                /\ q = "version_fault" => (~result'.ok /\ result'.err.type = "Fault")]_vars

\* C25 witness: the version query of an app failed after the bundle lookup
\* and the call ended with the fault, having made each query once
C25_Witness ==
    /\ result.op = "get_latest_version"
    /\ result.self.kind = "app"
    /\ result.args.q = "version_fault"
    /\ ~result.ok
    /\ result.err.type = "Fault"
    /\ CatalogCalls(calls) = <<"find_one_bundle", "find_versions_all">>

\* C25 second witness: no bundle record, no version query
C25_NoBundleWitness ==
    /\ result.op = "get_latest_version"
    /\ result.self.kind = "app"
    /\ IsNone(catalog.bundle)
    /\ ~result.ok
    /\ calls # <<>>
    /\ calls[Len(calls)] = "find_one_bundle"

\* C26: get_latest_version asks the catalog for one record exactly when the
\* descriptor has no label and the call has no constraint pattern, and for
\* all records otherwise; the call that asked for one record ends as the
\* choice among all the records of the query ends: with the same version,
\* or with the same error.
C26_SingleResultIsEquivalent ==
    (result.op = "get_latest_version" /\ calls # <<>>) =>
        LET self == result.self
            single == IsNone(self.label) /\ IsNone(result.args.pattern)
            full == ChooseVersion(self, result.args.pattern,
                                  FindVersions(catalog, self.kind, result.args.qa, 0))
        IN  /\ single <=> "find_versions_limit_1" \in Elements(calls)
            /\ ~single <=> "find_versions_all" \in Elements(calls)
            /\ single =>
                  /\ result.ok = full.ok
                  /\ result.ok => result.value.version = full.record.code
                  /\ ~result.ok => result.err = full.err

\* C26 witness: a call without label and pattern asked for one record of a
\* catalog with two versions that pass the status filter, and returned the
\* first of them
C26_Witness ==
    /\ result.op = "get_latest_version"
    /\ IsNone(result.self.label) /\ IsNone(result.args.pattern)
    /\ "find_versions_limit_1" \in Elements(calls)
    /\ result.ok
    /\ Len(FindVersions(catalog, result.self.kind, result.args.qa, 0)) = 2
    /\ result.value.version =
          FindVersions(catalog, result.self.kind, result.args.qa, 0)[1].code

\* C27: a get_latest_version of a descriptor without a label that reaches
\* the catalog does not fail because of the tags of a record, whether a
\* list or null, and leaves no record out because of them: without a
\* pattern it returns the version created last, with a pattern the newest
\* of the versions the pattern admits among all the records.
C27_NoLabelIgnoresTags ==
    (/\ result.op = "get_latest_version"
     /\ IsNone(result.self.label)
     /\ calls # <<>>) =>
        LET all == FindVersions(catalog, result.self.kind, result.args.qa, 0)
            chosen == ChooseMatching(result.args.pattern, all)
        IN  /\ result.ok = chosen.ok
            /\ result.ok => result.value.version = chosen.record.code
            /\ ~result.ok => result.err.type \notin {"TypeError", "KeyError"}

\* C28: a connection attempt whose identity lookup fails ends with the
\* error of its class and hands no connection over nor stores one: an
\* authentication fault with InvalidAppStoreCredentialsError, a transport
\* failure or a TLS read that timed out with TankAppStoreConnectionError,
\* any other failure, and a lookup that finds no user, with TankAppStoreError.
C28_FailuresAreClassified ==
    [][(result'.op = "connect" /\ result'.args.o.lookup # "user") =>
        /\ ~result'.ok
        /\ IsNone(result'.value)
        /\ connections' = connections
        /\ result'.err.type =
              CASE result'.args.o.lookup = "auth_fault" -> "InvalidAppStoreCredentialsError"
                [] result'.args.o.lookup \in {"transport", "ssl_timeout"} ->
                      "TankAppStoreConnectionError"
                [] OTHER -> "TankAppStoreError"]_vars

\* whether the last operation was a connection attempt that failed
AttemptFailed ==
    \/ result.op = "connect" /\ ~result.ok
    \/ result.op = "has_remote_access" /\ result.value = FALSE

\* C29: a connection attempt that fails leaves the cache as it was, so no
\* entry is made for its site; the request that follows it for the same
\* site, with the flag not set, starts the establishment again with the
\* fetch of the credentials and succeeds or fails by the answers it gets.
C29_FailureIsNotCached ==
    [][/\ AttemptFailed' => connections' = connections
       /\ (/\ AttemptFailed
           /\ result.self.cls = "Tank"
           /\ ~disabled
           /\ result'.op = "connect"
           /\ result'.self.cls = "Tank"
           /\ result'.self.site = result.self.site) =>
              /\ IsNone(connections[result.self.site])
              /\ calls' # <<>>
              /\ calls'[1] = "fetch_credentials"
              /\ result'.ok = Establishes(result'.args.o)
              /\ result'.ok => calls'[Len(calls')] = "identity_lookup"]_vars

\* C29 witness: the attempt for one site failed at the identity lookup and
\* left no entry for it, while the entry of the other site is in the cache
C29_Witness ==
    /\ result.op = "connect"
    /\ ~result.ok
    /\ result.err = Err("TankAppStoreConnectionError", "transport")
    /\ calls = <<"fetch_credentials", "identity_lookup">>
    /\ IsNone(connections[result.self.site])
    /\ \E s \in Sites : ~IsNone(connections[s])

\* C30: the reference get_latest_version or get_latest_cached_version of a
\* Tank descriptor returns behaves as a descriptor of the deployment: its
\* cache path is under the disk folder name of the descriptor it came
\* from, and has_remote_access on it gives what has_remote_access on that
\* descriptor gives.
C30_ReferenceKeepsDeployment ==
    (/\ result.op \in {"get_latest_version", "get_latest_cached_version"}
     /\ result.self.cls = "Tank"
     /\ result.ok
     /\ ~IsNone(result.value)) =>
        /\ get_bundle_cache_path(result.value).disk = PLAY_STORE_DISK_NAME(result.self.cls)
        /\ has_remote_access(result.value, connections, disabled, ConnUp).value
              = has_remote_access(result.self, connections, disabled, ConnUp).value

\* C31: a refresh whose write succeeded leaves in the side-car of its path
\* exactly the metadata it returns, whatever the file held before, and
\* touches no other side-car; the operations that read leave every
\* side-car as it is; so the load of that path that follows the refresh
\* returns the metadata the refresh returned, bundle data and version data.
C31_SidecarRoundTrip ==
    [][/\ (result'.op = "refresh" /\ result'.args.wrote) =>
            /\ result'.ok
            /\ sidecar'[get_bundle_cache_path(result'.self)] = result'.value
            /\ \A p \in Paths \ {get_bundle_cache_path(result'.self)} :
                  sidecar'[p] = sidecar[p]
       /\ result'.op \in {"load", "get_deprecation_status", "get_changelog",
                          "get_latest_cached_version"} => sidecar' = sidecar
       /\ (/\ result.op = "refresh"
           /\ result.args.wrote
           /\ result'.op = "load"
           /\ result'.args.path = get_bundle_cache_path(result.self)) =>
              /\ result'.ok
              /\ result'.value = result.value
              /\ result'.value.sg_bundle_data = result.value.sg_bundle_data
              /\ result'.value.sg_version_data = result.value.sg_version_data]_vars

\* C31 witness: a load returned for an app the metadata of a refresh that
\* was handed version data and no bundle data, which no refresh that
\* fetches writes: it is all the side-car holds
C31_Witness ==
    /\ result.op = "load"
    /\ result.ok
    /\ result.args.path.kind = "app"
    /\ result.value = Metadata(None, CatalogFixture.versions[1])
    /\ sidecar[result.args.path] = result.value

\* C32: _download_local connects, then looks the records up, then asks
\* for the payload, once and as its last call, and only when the
\* connection was made and the lookups found the records (and the version
\* record holds an attachment); a failed connection or a record the catalog
\* does not hold ends the call with its error before any download; a
\* download that fails ends it with TankAppStoreError and leaves no bundle
\* in the cache.
C32_DownloadOrder ==
    [][result'.op = "download_local" =>
        LET self == result'.self
            a == result'.args
            m == FetchedMetadata(self)
            found == /\ ConnectionSucceeds(self, a.o)
                     /\ a.q = "ok"
                     /\ ~IsNone(m.sg_version_data)
                     /\ (self.kind = "core" \/ ~IsNone(m.sg_bundle_data))
            attempted == "download_attachment" \in Elements(calls')
        IN  /\ attempted <=> (found /\ a.a = "uploaded")
            /\ attempted =>
                  /\ Count(calls', "download_attachment") = 1
                  /\ calls'[Len(calls')] = "download_attachment"
                  /\ Lookups(calls') = ExpectedLookups(self)
                  /\ \A i, j \in 1..Len(calls') :
                        (calls'[i] \in EstablishingCalls /\ calls'[j] \in Elements(Lookups(calls')))
                            => i < j
            /\ ~found => ~result'.ok
            /\ ~ConnectionSucceeds(self, a.o) => Lookups(calls') = <<>>
            /\ (attempted /\ a.d = "fault") =>
                  /\ ~result'.ok
                  /\ result'.err = Err("TankAppStoreError", "failed to download")
            /\ (attempted /\ a.d = "ok") => result'.ok
            /\ ~result'.ok => materialized' = materialized
            /\ result'.ok => materialized' = materialized \cup {get_bundle_cache_path(self)}]_vars

\* C32 witness: the download failed after the connection was established
\* and both records were found, and the caller got the store error
C32_Witness ==
    /\ result.op = "download_local"
    /\ result.self.kind = "app"
    /\ ~result.ok
    /\ result.err.type = "TankAppStoreError"
    /\ calls = <<"fetch_credentials", "identity_lookup", "find_one_bundle",
                 "find_one_version", "download_attachment">>

\* C32 second witness: the version is not in the catalog and no download
\* was attempted
C32_NotFoundWitness ==
    /\ result.op = "download_local"
    /\ ~result.ok
    /\ result.err = Err("TankDescriptorError", "no such version")
    /\ "download_attachment" \notin Elements(calls)

====
